---- MODULE Spec2Model ----
(***************************************************************************)
(* Completion & engagement analytics of the moodle reporting backend.      *)
(*                                                                         *)
(* SpecCompletion : getSingleCourseCompletionBreakdown with its batch      *)
(*                  scheduler processUsersInBatches (completion ranges).   *)
(* SpecRangeKey   : getRangeKey on arbitrary (completedCount, courseTotal). *)
(* SpecEngagement : getSingleCourseBreakdown with processInBatches         *)
(*                  (class-wise video / pdf learner sets).                 *)
(***************************************************************************)
EXTENDS Integers, Sequences, FiniteSets, TLC

\* ---------------------------------------------------------------- bounds
\* Largest roster the upstream returns for a course.
MaxUsers == 4
\* Longest statuses list the upstream returns for one student.
MaxStatuses == 2
\* batchSize argument of the scheduler (the call sites pass 20).
BatchSize == 2
\* Largest completedCount / courseTotal given to getRangeKey on its own.
MaxCount == 12
\* Most sections in a course, and most modules in one section.
MaxSections == 2
MaxModules == 1
\* Largest roster of the class-wise breakdown.
MaxStudents == 3

VARIABLES
    \* --- getSingleCourseCompletionBreakdown / processUsersInBatches
    pc,                 \* position of the async function
    users,              \* roster returned by getEnrolledUsers
    i,                  \* loop index of the scheduler (offset of the batch)
    inflight,           \* roster positions dispatched and not yet settled
    batchResults,       \* settled values of the current Promise.all
    results,            \* results array of the scheduler
    totalActivitiesWithCompletion,
    userCompletionData, \* pushed in completion order
    report,             \* value the function returns
    batches,            \* number of batches dispatched so far
    pauses,             \* number of inter-batch pauses started so far
    \* --- getRangeKey on its own
    rkCompleted, rkTotal, rkResult,
    \* --- getSingleCourseBreakdown (class-wise video / pdf breakdown); its
    \*     scheduler processInBatches uses pc .. pauses above
    sections,           \* course contents as fetched ([] when the fetch failed)
    moduleMap,          \* cmid -> classified activity
    classOrder,         \* class labels in section order
    classData,          \* class label -> [video, pdf] sets of student ids
    \* --- the fold of one student's statuses (callback of getSingleCourseBreakdown)
    statusList,         \* statuses array of one getActivitiesCompletion response
    \* --- ConsistentAccessService.getDateRange
    now,                \* epoch seconds of the clock at the call
    dateRange,          \* range key of the request
    startDate, endDate, \* query strings of a custom range ("" when absent)
    range,              \* what getDateRange returned, or that it threw
    \* --- ConsistentAccessService.getConsistentAccessData
    siteCourses,        \* courses of the site user, each with its roster fetch
    courseIdx,          \* index of the course whose roster is fetched next
    userAccessMap,      \* user id -> [lastaccess, courses]
    \* --- parseActivityInfo on its own
    paModuleName, paSectionName, paModname, paResult,
    \* --- getAllCoursesCompletionBreakdown; the report of each course is built
    \*     by getSingleCourseCompletionBreakdown with pc .. pauses above
    allPc,              \* position of the aggregation
    allCourses,         \* courses returned by getUserCourses
    allIdx,             \* loop index over the courses
    allResults,         \* results array of the aggregation
    allReport,          \* value the aggregation returns
    \* --- two concurrent callbacks of one batch of getSingleCourseBreakdown
    responses           \* student id -> the statuses its fetch resolves with

varsC == <<pc, users, i, inflight, batchResults, results,
           totalActivitiesWithCompletion, userCompletionData, report,
           batches, pauses>>
varsR == <<rkCompleted, rkTotal, rkResult>>
varsE == <<sections, moduleMap, classOrder, classData>>
varsF == <<statusList>>
varsD == <<now, dateRange, startDate, endDate, range>>
varsA == <<siteCourses, courseIdx, userAccessMap>>
varsP == <<paModuleName, paSectionName, paModname, paResult>>
varsX == <<varsF, varsD, varsA, varsP>>
varsG == <<allPc, allCourses, allIdx, allResults, allReport>>
varsO == <<responses>>
vars == <<varsC, varsR, varsE, varsX, varsG, varsO>>

\* ------------------------------------------------------------ data shapes
\* completion state of one activity: 0 incomplete, 1 complete,
\* 2 complete-pass, 3 complete-fail
StatusStates == {0, 1, 2, 3}

RECURSIVE SeqsUpTo(_, _)
SeqsUpTo(S, n) ==
    IF n = 0 THEN {<<>>}
    ELSE LET shorter == SeqsUpTo(S, n - 1)
         IN shorter \cup {Append(s, x) : s \in {t \in shorter : Len(t) = n - 1}, x \in S}

\* statuses arrays of getActivitiesCompletion responses
StatusLists == SeqsUpTo(StatusStates, MaxStatuses)

RangeKeys == {"0", "low", "mid", "high", "veryhigh", "full"}

Max(a, b) == IF a >= b THEN a ELSE b
Min(a, b) == IF a <= b THEN a ELSE b

\* Math.round(a / b * 100) for integers a >= 0, b > 0
RoundPercent(a, b) == (200 * a + b) \div (2 * b)

\* ------------------------------------------------------------ getRangeKey
\* a range table that forgets one key
getEmptyRanges_NoVeryHigh ==
    [k \in RangeKeys \ {"veryhigh"} |-> [count |-> 0, students |-> <<>>]]

getEmptyRanges == [k \in RangeKeys |-> [count |-> 0, students |-> <<>>]]

\* percentComplete < p, with percentComplete = completedCount / courseTotal * 100
\* when courseTotal > 0 and 0 otherwise
PercentBelow(completedCount, courseTotal, p) ==
    IF courseTotal > 0 THEN completedCount * 100 < p * courseTotal ELSE 0 < p

\* 'full' only when completedCount exceeds the course total
getRangeKey_StrictFull(completedCount, courseTotal) ==
    IF completedCount = 0 THEN "0"
    ELSE IF completedCount > courseTotal /\ courseTotal > 0 THEN "full"
    ELSE IF PercentBelow(completedCount, courseTotal, 25) THEN "low"
    ELSE IF PercentBelow(completedCount, courseTotal, 50) THEN "mid"
    ELSE IF PercentBelow(completedCount, courseTotal, 75) THEN "high"
    ELSE "veryhigh"

getRangeKey(completedCount, courseTotal) ==
    IF completedCount = 0 THEN "0"
    ELSE IF completedCount >= courseTotal /\ courseTotal > 0 THEN "full"
    ELSE IF PercentBelow(completedCount, courseTotal, 25) THEN "low"
    ELSE IF PercentBelow(completedCount, courseTotal, 50) THEN "mid"
    ELSE IF PercentBelow(completedCount, courseTotal, 75) THEN "high"
    ELSE "veryhigh"

addToRange(ranges, completedCount, courseTotal, student) ==
    LET key == getRangeKey(completedCount, courseTotal)
    IN [ranges EXCEPT ![key] = [count |-> @.count + 1,
                                students |-> Append(@.students, student)]]

\* Array.prototype.sort((a, b) => b.completedActivities - a.completedActivities):
\* stable, descending by completedActivities
RECURSIVE InsertStudent(_, _)
InsertStudent(sorted, s) ==
    IF sorted = <<>> THEN <<s>>
    ELSE IF Head(sorted).completedActivities >= s.completedActivities
         THEN <<Head(sorted)>> \o InsertStudent(Tail(sorted), s)
         ELSE <<s>> \o sorted

RECURSIVE SortStudents(_)
SortStudents(students) ==
    IF students = <<>> THEN <<>>
    ELSE InsertStudent(SortStudents(SubSeq(students, 1, Len(students) - 1)),
                       students[Len(students)])

\* ------------------------------------------- second pass of the breakdown
StudentData(d, courseTotal) ==
    [id |-> d.user,
     completedActivities |-> d.completedCount,
     totalActivities |-> courseTotal,
     userVisibleActivities |-> d.userVisibleActivities,
     completionPercentage |->
         IF courseTotal > 0 THEN RoundPercent(d.completedCount, courseTotal) ELSE 0,
     error |-> d.error]

RECURSIVE Categorize(_, _, _)
Categorize(ranges, data, courseTotal) ==
    IF data = <<>> THEN ranges
    ELSE Categorize(addToRange(ranges, Head(data).completedCount, courseTotal,
                               StudentData(Head(data), courseTotal)),
                    Tail(data), courseTotal)

SortRanges(ranges) ==
    [k \in DOMAIN ranges |-> [count |-> ranges[k].count,
                          students |-> SortStudents(ranges[k].students)]]

\* one-pass variant: every student is bucketed against the maximum seen
\* when that student's fetch completed
RECURSIVE CategorizeRunning(_, _, _)
CategorizeRunning(ranges, data, running) ==
    IF data = <<>> THEN ranges
    ELSE LET seen == Max(running, Head(data).userVisibleActivities)
         IN CategorizeRunning(addToRange(ranges, Head(data).completedCount, seen,
                                         StudentData(Head(data), seen)),
                              Tail(data), seen)

Breakdown_RunningTotal(roster, courseTotal, data) ==
    [totalEnrolled |-> Len(roster),
     totalActivitiesWithCompletion |-> courseTotal,
     completionRanges |-> SortRanges(CategorizeRunning(getEmptyRanges, data, 0))]

Breakdown(roster, courseTotal, data) ==
    [totalEnrolled |-> Len(roster),
     totalActivitiesWithCompletion |-> courseTotal,
     completionRanges |-> SortRanges(Categorize(getEmptyRanges, data, courseTotal))]

EmptyBreakdown ==
    [totalEnrolled |-> 0,
     totalActivitiesWithCompletion |-> 0,
     completionRanges |-> getEmptyRanges]

NoReport == [totalEnrolled |-> -1]

\* ------------------------------------------------- processUsersInBatches
\* users.slice(from) without the end index
BatchOf_Unbounded(n, from) == {k \in 1..n : from < k}

\* users.slice(from, from + batchSize) as roster positions (1-based)
BatchOf(n, from) == {k \in 1..n : from < k /\ k <= from + BatchSize}

\* batchResults in roster order, as Promise.all returns them
RECURSIVE BatchValues(_, _, _)
BatchValues(settled, from, to) ==
    IF from > to THEN <<>>
    ELSE <<settled[from]>> \o BatchValues(settled, from + 1, to)

\* the per-student callback, after its fetch returned statuses
CompletedCount(statuses) ==
    Len(SelectSeq(statuses, LAMBDA st : st = 1 \/ st = 2))

\* keeps the count of the student that completed last
TrackMaximum_Latest(total, userVisibleActivities) == userVisibleActivities

\* keeps the smallest count seen
TrackMaximum_Minimum(total, userVisibleActivities) == Min(total, userVisibleActivities)

TrackMaximum(total, userVisibleActivities) == Max(total, userVisibleActivities)

\* ---------------------------------------------------------------- Init
IdleC ==
    /\ pc = "idle"
    /\ users = <<>>
    /\ i = 0
    /\ inflight = {}
    /\ batchResults = <<>>
    /\ results = <<>>
    /\ totalActivitiesWithCompletion = 0
    /\ userCompletionData = <<>>
    /\ report = NoReport
    /\ batches = 0
    /\ pauses = 0

IdleR ==
    /\ rkCompleted = 0
    /\ rkTotal = 0
    /\ rkResult = "idle"

IdleE ==
    /\ sections = <<>>
    /\ moduleMap = <<>>
    /\ classOrder = <<>>
    /\ classData = <<>>

NoRange == [threw |-> "idle"]

IdleF == statusList = <<>>

IdleD ==
    /\ now = 0
    /\ dateRange = ""
    /\ startDate = ""
    /\ endDate = ""
    /\ range = NoRange

IdleA ==
    /\ siteCourses = <<>>
    /\ courseIdx = 0
    /\ userAccessMap = <<>>

IdleP ==
    /\ paModuleName = ""
    /\ paSectionName = ""
    /\ paModname = ""
    /\ paResult = <<>>

IdleX == IdleF /\ IdleD /\ IdleA /\ IdleP

IdleG ==
    /\ allPc = "idle"
    /\ allCourses = <<>>
    /\ allIdx = 0
    /\ allResults = <<>>
    /\ allReport = NoReport

IdleO == responses = <<>>

InitCompletion ==
    /\ pc = "fetchUsers"
    /\ users = <<>>
    /\ i = 0
    /\ inflight = {}
    /\ batchResults = <<>>
    /\ results = <<>>
    /\ totalActivitiesWithCompletion = 0
    /\ userCompletionData = <<>>
    /\ report = NoReport
    /\ batches = 0
    /\ pauses = 0
    /\ IdleR
    /\ IdleE
    /\ IdleX
    /\ IdleG
    /\ IdleO

\* ------------------------------- getSingleCourseCompletionBreakdown steps
\* getEnrolledUsers rejects: the catch block rethrows
EnrolledUsersFails ==
    /\ pc = "fetchUsers"
    /\ pc' = "threw"
    /\ UNCHANGED <<users, i, inflight, batchResults, results,
                   totalActivitiesWithCompletion, userCompletionData, report,
                   batches, pauses>>
    /\ UNCHANGED <<varsR, varsE, varsX, varsG, varsO>>

\* getEnrolledUsers resolves with an empty roster: early return
EnrolledUsersEmpty ==
    /\ pc = "fetchUsers"
    /\ pc' = "returned"
    /\ users' = <<>>
    /\ report' = EmptyBreakdown
    /\ UNCHANGED <<i, inflight, batchResults, results,
                   totalActivitiesWithCompletion, userCompletionData,
                   batches, pauses>>
    /\ UNCHANGED <<varsR, varsE, varsX, varsG, varsO>>

\* getEnrolledUsers resolves with n students: the scheduler dispatches the
\* first batch (batch.map(processFn) starts every fetch of the batch)
EnrolledUsersReturns ==
    /\ pc = "fetchUsers"
    /\ \E n \in 1..MaxUsers :
        /\ users' = [k \in 1..n |-> k]
        /\ inflight' = BatchOf(n, 0)
    /\ pc' = "batch"
    /\ i' = 0
    /\ batchResults' = <<>>
    /\ batches' = batches + 1
    /\ UNCHANGED <<results, totalActivitiesWithCompletion, userCompletionData,
                   report, pauses>>
    /\ UNCHANGED <<varsR, varsE, varsX, varsG, varsO>>

\* getActivitiesCompletion of one dispatched student resolves
CompletionReturns ==
    /\ pc = "batch"
    /\ \E k \in inflight, statuses \in StatusLists :
        /\ totalActivitiesWithCompletion' =
               TrackMaximum(totalActivitiesWithCompletion, Len(statuses))
        /\ userCompletionData' = Append(userCompletionData,
               [user |-> users[k],
                completedCount |-> CompletedCount(statuses),
                userVisibleActivities |-> Len(statuses),
                error |-> FALSE])
        /\ batchResults' = (k :> TRUE) @@ batchResults
        /\ inflight' = inflight \ {k}
    /\ UNCHANGED <<pc, users, i, results, report, batches, pauses>>
    /\ UNCHANGED <<varsR, varsE, varsX, varsG, varsO>>

\* a catch block that records nothing for the failing student
CompletionFails_NoFallback ==
    /\ pc = "batch"
    /\ \E k \in inflight :
        /\ batchResults' = (k :> FALSE) @@ batchResults
        /\ inflight' = inflight \ {k}
    /\ UNCHANGED <<pc, users, i, results, totalActivitiesWithCompletion,
                   userCompletionData, report, batches, pauses>>
    /\ UNCHANGED <<varsR, varsE, varsX, varsG, varsO>>

\* a callback without try/catch: the rejection rejects Promise.all and the
\* whole breakdown throws
CompletionFails_Aborts ==
    /\ pc = "batch"
    /\ \E k \in inflight : inflight' = inflight \ {k}
    /\ pc' = "threw"
    /\ UNCHANGED <<users, i, batchResults, results, totalActivitiesWithCompletion,
                   userCompletionData, report, batches, pauses>>
    /\ UNCHANGED <<varsR, varsE, varsX, varsG, varsO>>

\* getActivitiesCompletion of one dispatched student rejects: fallback entry
CompletionFails ==
    /\ pc = "batch"
    /\ \E k \in inflight :
        /\ userCompletionData' = Append(userCompletionData,
               [user |-> users[k],
                completedCount |-> 0,
                userVisibleActivities |-> 0,
                error |-> TRUE])
        /\ batchResults' = (k :> FALSE) @@ batchResults
        /\ inflight' = inflight \ {k}
    /\ UNCHANGED <<pc, users, i, results, totalActivitiesWithCompletion,
                   report, batches, pauses>>
    /\ UNCHANGED <<varsR, varsE, varsX, varsG, varsO>>

\* Promise.race in place of Promise.all: the batch counts as done when its
\* first callback settles
BatchSettled_Early ==
    /\ pc = "batch"
    /\ inflight # BatchOf(Len(users), i)
    /\ i + BatchSize < Len(users)
    /\ results' = results \o [k \in 1..BatchSize |->
                       IF (i + k) \in DOMAIN batchResults THEN batchResults[i + k] ELSE FALSE]
    /\ pc' = "pause"
    /\ pauses' = pauses + 1
    /\ UNCHANGED <<users, i, inflight, batchResults,
                   totalActivitiesWithCompletion, userCompletionData, report,
                   batches>>
    /\ UNCHANGED <<varsR, varsE, varsX, varsG, varsO>>

\* Promise.all of a batch that is not the last one resolves: the results are
\* appended and the inter-batch pause starts
BatchSettled ==
    /\ pc = "batch"
    /\ inflight = {}
    /\ i + BatchSize < Len(users)
    /\ results' = results \o BatchValues(batchResults, i + 1, i + BatchSize)
    /\ pc' = "pause"
    /\ pauses' = pauses + 1
    /\ UNCHANGED <<users, i, inflight, batchResults,
                   totalActivitiesWithCompletion, userCompletionData, report,
                   batches>>
    /\ UNCHANGED <<varsR, varsE, varsX, varsG, varsO>>

\* the 100 ms timer fires: the loop advances and dispatches the next batch
PauseElapsed ==
    /\ pc = "pause"
    /\ i' = i + BatchSize
    /\ inflight' = BatchOf(Len(users), i + BatchSize)
    /\ batchResults' = <<>>
    /\ batches' = batches + 1
    /\ pc' = "batch"
    /\ UNCHANGED <<users, results, totalActivitiesWithCompletion,
                   userCompletionData, report, pauses>>
    /\ UNCHANGED <<varsR, varsE, varsX, varsG, varsO>>

\* Promise.all of the last batch resolves: the scheduler returns, the second
\* pass buckets every student against the course total, the buckets are
\* sorted and the breakdown is returned
LastBatchSettled ==
    /\ pc = "batch"
    /\ inflight = {}
    /\ ~(i + BatchSize < Len(users))
    /\ results' = results \o BatchValues(batchResults, i + 1, Len(users))
    /\ i' = i + BatchSize
    /\ report' = Breakdown(users, totalActivitiesWithCompletion, userCompletionData)
    /\ pc' = "returned"
    /\ UNCHANGED <<users, inflight, batchResults,
                   totalActivitiesWithCompletion, userCompletionData,
                   batches, pauses>>
    /\ UNCHANGED <<varsR, varsE, varsX, varsG, varsO>>

NextCompletion ==
    \/ EnrolledUsersFails
    \/ EnrolledUsersEmpty
    \/ EnrolledUsersReturns
    \/ CompletionReturns
    \/ CompletionFails
    \/ BatchSettled
    \/ PauseElapsed
    \/ LastBatchSettled

SpecCompletion == InitCompletion /\ [][NextCompletion]_vars

\* ------------------------------------------------ getRangeKey on its own
InitRangeKey ==
    /\ IdleC
    /\ IdleE
    /\ IdleX
    /\ IdleG
    /\ IdleO
    /\ rkCompleted \in 0..MaxCount
    /\ rkTotal \in 0..MaxCount
    /\ rkResult = "none"

CallGetRangeKey ==
    /\ rkResult = "none"
    /\ rkResult' = getRangeKey(rkCompleted, rkTotal)
    /\ UNCHANGED <<rkCompleted, rkTotal>>
    /\ UNCHANGED <<varsC, varsE, varsX, varsG, varsO>>

NextRangeKey == CallGetRangeKey

SpecRangeKey == InitRangeKey /\ [][NextRangeKey]_vars

\* ================================ class-wise video / pdf breakdown (inputs)
\* section names the upstream reports ("" stands for a section without name)
SectionNames == {"", "Week 1"}

\* (name, modname) of the modules the upstream reports
ModuleKinds == {<<"Intro Video", "resource">>,
                <<"Notes PDF", "resource">>,
                <<"Notes PDF", "interactivevideo">>,
                <<"Reading", "page">>,
                <<"Discussion Video", "forum">>}

\* instance ids: unique per module type only, so two modules may share one
Instances == {1, 2}

\* the module at position p of section s; cmids are unique in a course
ModulesAt(id) ==
    {[id |-> id, name |-> kd[1], modname |-> kd[2], instance |-> inst] :
        kd \in ModuleKinds, inst \in Instances}

RECURSIVE ModuleSeqs(_, _)
ModuleSeqs(base, len) ==
    IF len = 0 THEN {<<>>}
    ELSE {Append(ms, m) : ms \in ModuleSeqs(base, len - 1), m \in ModulesAt(base + len)}

SectionsAt(s) ==
    {[name |-> nm, modules |-> ms] :
        nm \in SectionNames,
        ms \in UNION {ModuleSeqs((s - 1) * MaxModules, len) : len \in 0..MaxModules}}

RECURSIVE SectionSeqs(_)
SectionSeqs(len) ==
    IF len = 0 THEN {<<>>}
    ELSE {Append(ss, sec) : ss \in SectionSeqs(len - 1), sec \in SectionsAt(len)}

RECURSIVE AllModules(_)
AllModules(secs) ==
    IF secs = <<>> THEN <<>> ELSE Head(secs).modules \o AllModules(Tail(secs))

\* an instance id identifies a module among the modules of its type
InstancePerType(secs) ==
    LET mods == AllModules(secs)
    IN \A a, b \in 1..Len(mods) :
        a # b /\ mods[a].modname = mods[b].modname => mods[a].instance # mods[b].instance

\* responses of getCourseContents
Courses ==
    {secs \in UNION {SectionSeqs(len) : len \in 0..MaxSections} : InstancePerType(secs)}

\* one status of a getActivitiesCompletion response for module m: upstream may
\* report the module under a cmid the course listing does not have (0), with
\* or without its instance (0 stands for no instance)
StatusesOf(m) ==
    {[cmid |-> ci[1], instance |-> ci[2], state |-> st] :
        ci \in {<<m.id, m.instance>>, <<0, m.instance>>, <<0, 0>>},
        st \in StatusStates}

\* statuses arrays: at most one status per module of the course, in course order
RECURSIVE StatusListsFor(_)
StatusListsFor(mods) ==
    IF mods = <<>> THEN {<<>>}
    ELSE LET rest == StatusListsFor(Tail(mods))
         IN rest \cup {<<st>> \o r : st \in StatusesOf(Head(mods)), r \in rest}

\* ------------------------------------------------------ parseActivityInfo
UpperCase == "ABCDEFGHIJKLMNOPQRSTUVWXYZ"
LowerCase == "abcdefghijklmnopqrstuvwxyz"

LowerChar(c) ==
    IF \E k \in 1..Len(UpperCase) : SubSeq(UpperCase, k, k) = c
    THEN LET k == CHOOSE n \in 1..Len(UpperCase) : SubSeq(UpperCase, n, n) = c
         IN SubSeq(LowerCase, k, k)
    ELSE c

RECURSIVE toLowerCase(_)
toLowerCase(str) ==
    IF Len(str) = 0 THEN ""
    ELSE LowerChar(SubSeq(str, 1, 1)) \o toLowerCase(SubSeq(str, 2, Len(str)))

includes(str, sub) ==
    \E k \in 1..(Len(str) - Len(sub) + 1) : SubSeq(str, k, k + Len(sub) - 1) = sub

\* a classifier that looks for a document before it looks for a video
parseActivityInfo_PdfFirst(moduleName, sectionName, modname) ==
    LET name == toLowerCase(moduleName)
        moduleType == toLowerCase(modname)
    IN [classLabel |-> IF sectionName # "" THEN sectionName ELSE "Unknown Class",
        type |-> IF moduleType = "interactivevideo" THEN "video"
                 ELSE IF includes(name, "pdf") \/ includes(name, "document") THEN "pdf"
                 ELSE IF includes(name, "video") \/ includes(name, "vid") THEN "video"
                 ELSE "other"]

parseActivityInfo(moduleName, sectionName, modname) ==
    LET name == toLowerCase(moduleName)
        moduleType == toLowerCase(modname)
    IN [classLabel |-> IF sectionName # "" THEN sectionName ELSE "Unknown Class",
        type |-> IF moduleType = "interactivevideo" THEN "video"
                 ELSE IF includes(name, "video") \/ includes(name, "vid") THEN "video"
                 ELSE IF includes(name, "pdf") \/ includes(name, "document") THEN "pdf"
                 ELSE "other"]

\* ------------------------------------ getSingleCourseBreakdown: the maps
learningModules == {"resource", "url", "page", "scorm", "folder", "interactivevideo"}

SectionName(section) == IF section.name # "" THEN section.name ELSE "Unknown Section"

RECURSIVE MapModules(_, _, _)
MapModules(map, mods, sectionName) ==
    IF mods = <<>> THEN map
    ELSE LET mod == Head(mods)
             info == parseActivityInfo(mod.name, sectionName, mod.modname)
         IN IF mod.modname \notin learningModules
            THEN MapModules(map, Tail(mods), sectionName)
            ELSE MapModules((mod.id :> [classLabel |-> info.classLabel,
                                        type |-> info.type,
                                        moduleName |-> mod.name,
                                        moduleId |-> mod.id,
                                        instance |-> mod.instance,
                                        modname |-> mod.modname]) @@ map,
                            Tail(mods), sectionName)

RECURSIVE BuildModuleMap(_, _)
BuildModuleMap(map, secs) ==
    IF secs = <<>> THEN map
    ELSE IF Head(secs).modules = <<>> THEN BuildModuleMap(map, Tail(secs))
    ELSE BuildModuleMap(MapModules(map, Head(secs).modules, SectionName(Head(secs))),
                        Tail(secs))

RECURSIVE BuildClassOrder(_, _)
BuildClassOrder(order, secs) ==
    IF secs = <<>> THEN order
    ELSE IF Head(secs).modules = <<>> THEN BuildClassOrder(order, Tail(secs))
    ELSE IF \E k \in 1..Len(order) : order[k] = SectionName(Head(secs))
         THEN BuildClassOrder(order, Tail(secs))
         ELSE BuildClassOrder(Append(order, SectionName(Head(secs))), Tail(secs))

EmptyClass == [video |-> {}, pdf |-> {}]

ensureClass(data, label) ==
    IF label \in DOMAIN data THEN data ELSE (label :> EmptyClass) @@ data

RECURSIVE EnsureClasses(_, _)
EnsureClasses(data, order) ==
    IF order = <<>> THEN data
    ELSE EnsureClasses(ensureClass(data, Head(order)), Tail(order))

\* ------------------------------- the per-student callback, after its fetch
\* Object.values(moduleMap).find(m => m.instance === status.instance):
\* integer keys are visited in ascending order
HasInstance(map, inst) == \E id \in DOMAIN map : map[id].instance = inst

FindByInstance(map, inst) ==
    LET ids == {id \in DOMAIN map : map[id].instance = inst}
    IN map[CHOOSE id \in ids : \A other \in ids : id <= other]

Matches(map, status) ==
    \/ status.cmid \in DOMAIN map
    \/ status.instance # 0 /\ HasInstance(map, status.instance)

ModInfo(map, status) ==
    IF status.cmid \in DOMAIN map THEN map[status.cmid]
    ELSE FindByInstance(map, status.instance)

\* a callback that overwrites the set instead of adding to it
AddLearner_Overwrites(data, label, type, studentId) ==
    IF type = "video"
    THEN [data EXCEPT ![label] = [@ EXCEPT !.video = {studentId}]]
    ELSE IF type = "pdf"
    THEN [data EXCEPT ![label] = [@ EXCEPT !.pdf = {studentId}]]
    ELSE data

AddLearner(data, label, type, studentId) ==
    IF type = "video"
    THEN [data EXCEPT ![label] = [@ EXCEPT !.video = @ \cup {studentId}]]
    ELSE IF type = "pdf"
    THEN [data EXCEPT ![label] = [@ EXCEPT !.pdf = @ \cup {studentId}]]
    ELSE data

\* a fold that gives up at the first status it cannot use
RECURSIVE FoldStatuses_StopsAtDiscard(_, _, _, _)
FoldStatuses_StopsAtDiscard(data, map, statuses, studentId) ==
    IF statuses = <<>> THEN data
    ELSE LET status == Head(statuses)
         IN IF status.state # 1 /\ status.state # 2
            THEN data
            ELSE IF ~Matches(map, status)
            THEN data
            ELSE LET modInfo == ModInfo(map, status)
                 IN FoldStatuses_StopsAtDiscard(
                        AddLearner(ensureClass(data, modInfo.classLabel),
                                   modInfo.classLabel, modInfo.type, studentId),
                        map, Tail(statuses), studentId)

RECURSIVE FoldStatuses(_, _, _, _)
FoldStatuses(data, map, statuses, studentId) ==
    IF statuses = <<>> THEN data
    ELSE LET status == Head(statuses)
         IN IF status.state # 1 /\ status.state # 2
            THEN FoldStatuses(data, map, Tail(statuses), studentId)
            ELSE IF ~Matches(map, status)
            THEN FoldStatuses(data, map, Tail(statuses), studentId)
            ELSE LET modInfo == ModInfo(map, status)
                 IN FoldStatuses(AddLearner(ensureClass(data, modInfo.classLabel),
                                            modInfo.classLabel, modInfo.type, studentId),
                                 map, Tail(statuses), studentId)

\* ------------------------------------------------------- the class summary
ClassSummary(data, order, enrolled) ==
    [k \in 1..Len(order) |->
        LET cls == IF order[k] \in DOMAIN data THEN data[order[k]] ELSE EmptyClass
        IN [className |-> order[k],
            videoCompleted |-> Cardinality(cls.video),
            pdfCompleted |-> Cardinality(cls.pdf),
            bothCompleted |-> Cardinality({id \in cls.video : id \in cls.pdf}),
            eitherCompleted |-> Cardinality(cls.video \cup cls.pdf),
            totalEnrolled |-> enrolled]]

RECURSIVE SumVideoSizes(_, _)
SumVideoSizes(data, labels) ==
    IF labels = {} THEN 0
    ELSE LET l == CHOOSE x \in labels : TRUE
         IN Cardinality(data[l].video) + SumVideoSizes(data, labels \ {l})

\* a course-level count that adds the per-class sizes up
uniqueVideoUsers_PerClassSum(data) == SumVideoSizes(data, DOMAIN data)

\* cls.video.forEach(id => uniqueVideoUsers.add(id)) over every class
uniqueVideoUsers(data) == Cardinality(UNION {data[l].video : l \in DOMAIN data})

uniquePdfUsers(data) == Cardinality(UNION {data[l].pdf : l \in DOMAIN data})

\* an either-count that adds the two sizes up
CourseReport_EitherIsSum(data, order, enrolled) ==
    [totalEnrolled |-> enrolled,
     totalClasses |-> Len(order),
     summary |-> [uniqueVideoLearners |-> uniqueVideoUsers(data),
                  uniquePdfLearners |-> uniquePdfUsers(data),
                  totalClasses |-> Len(order)],
     classes |-> [k \in 1..Len(order) |->
                     [ClassSummary(data, order, enrolled)[k] EXCEPT
                         !.eitherCompleted = Cardinality(data[order[k]].video)
                                             + Cardinality(data[order[k]].pdf)]]]

CourseReport(data, order, enrolled) ==
    [totalEnrolled |-> enrolled,
     totalClasses |-> Len(order),
     summary |-> [uniqueVideoLearners |-> uniqueVideoUsers(data),
                  uniquePdfLearners |-> uniquePdfUsers(data),
                  totalClasses |-> Len(order)],
     classes |-> ClassSummary(data, order, enrolled)]

\* ----------------------------------------------------- processInBatches
\* items.slice(from, from + batchSize) as roster positions (1-based)
ItemsBatch(n, from) == {k \in 1..n : from < k /\ k <= from + BatchSize}

\* -------------------------------------------- getSingleCourseBreakdown steps
InitEngagement ==
    /\ pc = "fetchContents"
    /\ users = <<>>
    /\ i = 0
    /\ inflight = {}
    /\ batchResults = <<>>
    /\ results = <<>>
    /\ totalActivitiesWithCompletion = 0
    /\ userCompletionData = <<>>
    /\ report = NoReport
    /\ batches = 0
    /\ pauses = 0
    /\ IdleR
    /\ IdleE
    /\ IdleX
    /\ IdleG
    /\ IdleO

\* getCourseContents rejects: the catch block keeps sections = []
ContentsFails ==
    /\ pc = "fetchContents"
    /\ pc' = "fetchStudents"
    /\ sections' = <<>>
    /\ moduleMap' = BuildModuleMap(<<>>, <<>>)
    /\ classOrder' = BuildClassOrder(<<>>, <<>>)
    /\ UNCHANGED <<users, i, inflight, batchResults, results,
                   totalActivitiesWithCompletion, userCompletionData, report,
                   batches, pauses, classData>>
    /\ UNCHANGED <<varsR, varsX, varsG, varsO>>

\* getCourseContents resolves: moduleMap and classOrder are built
ContentsReturns ==
    /\ pc = "fetchContents"
    /\ \E course \in Courses :
        /\ sections' = course
        /\ moduleMap' = BuildModuleMap(<<>>, course)
        /\ classOrder' = BuildClassOrder(<<>>, course)
    /\ pc' = "fetchStudents"
    /\ UNCHANGED <<users, i, inflight, batchResults, results,
                   totalActivitiesWithCompletion, userCompletionData, report,
                   batches, pauses, classData>>
    /\ UNCHANGED <<varsR, varsX, varsG, varsO>>

\* getEnrolledUsers rejects: the catch block keeps students = [], no fetch is
\* dispatched and the summary is returned
StudentsFails ==
    /\ pc = "fetchStudents"
    /\ users' = <<>>
    /\ classData' = EnsureClasses(<<>>, classOrder)
    /\ report' = CourseReport(EnsureClasses(<<>>, classOrder), classOrder, 0)
    /\ pc' = "returned"
    /\ UNCHANGED <<i, inflight, batchResults, results,
                   totalActivitiesWithCompletion, userCompletionData,
                   batches, pauses, sections, moduleMap, classOrder>>
    /\ UNCHANGED <<varsR, varsX, varsG, varsO>>

\* getEnrolledUsers resolves with an empty roster
StudentsEmpty ==
    /\ pc = "fetchStudents"
    /\ users' = <<>>
    /\ classData' = EnsureClasses(<<>>, classOrder)
    /\ report' = CourseReport(EnsureClasses(<<>>, classOrder), classOrder, 0)
    /\ pc' = "returned"
    /\ UNCHANGED <<i, inflight, batchResults, results,
                   totalActivitiesWithCompletion, userCompletionData,
                   batches, pauses, sections, moduleMap, classOrder>>
    /\ UNCHANGED <<varsR, varsX, varsG, varsO>>

\* getEnrolledUsers resolves with n students: the scheduler dispatches the
\* first batch (every roster entry of the upstream carries a non-zero id, so
\* no callback takes the `!student.id` return)
StudentsReturn ==
    /\ pc = "fetchStudents"
    /\ \E n \in 1..MaxStudents :
        /\ users' = [k \in 1..n |-> k]
        /\ inflight' = ItemsBatch(n, 0)
    /\ classData' = EnsureClasses(<<>>, classOrder)
    /\ pc' = "batch"
    /\ i' = 0
    /\ batchResults' = <<>>
    /\ batches' = batches + 1
    /\ UNCHANGED <<results, totalActivitiesWithCompletion, userCompletionData,
                   report, pauses, sections, moduleMap, classOrder>>
    /\ UNCHANGED <<varsR, varsX, varsG, varsO>>

\* getActivitiesCompletion of one dispatched student resolves: the statuses
\* are folded into the class sets
StudentCompletionReturns ==
    /\ pc = "batch"
    /\ \E k \in inflight, statuses \in StatusListsFor(AllModules(sections)) :
        /\ classData' = FoldStatuses(classData, moduleMap, statuses, users[k])
        /\ batchResults' = (k :> "undefined") @@ batchResults
        /\ inflight' = inflight \ {k}
    /\ UNCHANGED <<pc, users, i, results, totalActivitiesWithCompletion,
                   userCompletionData, report, batches, pauses,
                   sections, moduleMap, classOrder>>
    /\ UNCHANGED <<varsR, varsX, varsG, varsO>>

\* getActivitiesCompletion of one dispatched student rejects: caught, logged
StudentCompletionFails ==
    /\ pc = "batch"
    /\ \E k \in inflight :
        /\ batchResults' = (k :> "undefined") @@ batchResults
        /\ inflight' = inflight \ {k}
    /\ UNCHANGED <<pc, users, i, results, totalActivitiesWithCompletion,
                   userCompletionData, report, batches, pauses>>
    /\ UNCHANGED <<varsR, varsE, varsX, varsG, varsO>>

\* Promise.all of a batch that is not the last one resolves: the results are
\* appended and the inter-batch pause starts
ItemsBatchSettled ==
    /\ pc = "batch"
    /\ inflight = {}
    /\ i + BatchSize < Len(users)
    /\ results' = results \o BatchValues(batchResults, i + 1, i + BatchSize)
    /\ pc' = "pause"
    /\ pauses' = pauses + 1
    /\ UNCHANGED <<users, i, inflight, batchResults,
                   totalActivitiesWithCompletion, userCompletionData, report,
                   batches>>
    /\ UNCHANGED <<varsR, varsE, varsX, varsG, varsO>>

\* the 100 ms timer fires: the loop advances and dispatches the next batch
ItemsPauseElapsed ==
    /\ pc = "pause"
    /\ i' = i + BatchSize
    /\ inflight' = ItemsBatch(Len(users), i + BatchSize)
    /\ batchResults' = <<>>
    /\ batches' = batches + 1
    /\ pc' = "batch"
    /\ UNCHANGED <<users, results, totalActivitiesWithCompletion,
                   userCompletionData, report, pauses>>
    /\ UNCHANGED <<varsR, varsE, varsX, varsG, varsO>>

\* Promise.all of the last batch resolves: the scheduler returns, the class
\* summary and the course-wide unique counts are computed and returned
ItemsLastBatchSettled ==
    /\ pc = "batch"
    /\ inflight = {}
    /\ ~(i + BatchSize < Len(users))
    /\ results' = results \o BatchValues(batchResults, i + 1, Len(users))
    /\ i' = i + BatchSize
    /\ report' = CourseReport(classData, classOrder, Len(users))
    /\ pc' = "returned"
    /\ UNCHANGED <<users, inflight, batchResults,
                   totalActivitiesWithCompletion, userCompletionData,
                   batches, pauses>>
    /\ UNCHANGED <<varsR, varsE, varsX, varsG, varsO>>

NextEngagement ==
    \/ ContentsFails
    \/ ContentsReturns
    \/ StudentsFails
    \/ StudentsEmpty
    \/ StudentsReturn
    \/ StudentCompletionReturns
    \/ StudentCompletionFails
    \/ ItemsBatchSettled
    \/ ItemsPauseElapsed
    \/ ItemsLastBatchSettled

SpecEngagement == InitEngagement /\ [][NextEngagement]_vars

\* ====================================================== checked properties
RECURSIVE SumCounts(_, _)
SumCounts(ranges, keys) ==
    IF keys = {} THEN 0
    ELSE LET k == CHOOSE x \in keys : TRUE
         IN ranges[k].count + SumCounts(ranges, keys \ {k})

CeilDiv(a, b) == (a + b - 1) \div b

\* positions of the roster whose callback has pushed its entry
Settled(k) ==
    \E j \in 1..Len(userCompletionData) : userCompletionData[j].user = users[k]

EntriesOf(k) ==
    {j \in 1..Len(userCompletionData) : userCompletionData[j].user = users[k]}

\* the student entries of bucket k of a returned breakdown
StudentsIn(rep, k) ==
    {rep.completionRanges[k].students[j] :
        j \in 1..Len(rep.completionRanges[k].students)}

RECURSIVE MaxOf(_)
MaxOf(S) ==
    IF S = {} THEN 0
    ELSE LET x == CHOOSE y \in S : TRUE
         IN Max(x, MaxOf(S \ {x}))

\* the course total a scan of the recorded per-student counts in roster order
\* arrives at
RECURSIVE RescanTotal(_)
RescanTotal(k) ==
    IF k = 0 THEN 0
    ELSE LET j == CHOOSE e \in EntriesOf(k) : TRUE
         IN Max(RescanTotal(k - 1), userCompletionData[j].userVisibleActivities)

\* C1: in a returned completion breakdown the counts of all buckets add up to
\* totalEnrolled, which is the roster size, whatever mix of per-student
\* fetches succeeded or failed.
C1_BucketCountsSumToEnrolled ==
    pc = "returned" =>
        /\ report.totalEnrolled = Len(users)
        /\ SumCounts(report.completionRanges, DOMAIN report.completionRanges)
               = report.totalEnrolled

C1_Witness ==
    /\ pc = "returned"
    /\ Len(users) >= 3
    /\ \E a, b \in 1..Len(userCompletionData) :
        userCompletionData[a].error /\ ~userCompletionData[b].error

\* C3: batches are dispatched in input order: an item is in flight only when
\* every item of the earlier batches has settled, no item is in flight during
\* a pause, each batch after the first follows exactly one pause, and a roster
\* of N items gives ceil(N / batchSize) batches and one pause fewer.
C3_BatchesInOrderWithPauses ==
    /\ \A k \in inflight :
        /\ i < k /\ k <= i + BatchSize
        /\ \A m \in 1..i : Settled(m)
    /\ (pc = "batch" =>
            /\ batches = (i \div BatchSize) + 1
            /\ pauses = batches - 1)
    /\ (pc = "pause" =>
            /\ inflight = {}
            /\ \A m \in 1..(i + BatchSize) : Settled(m)
            /\ pauses = batches)
    /\ (pc = "returned" /\ users # <<>> =>
            /\ batches = CeilDiv(Len(users), BatchSize)
            /\ pauses = batches - 1)

C3_Witness ==
    /\ pc = "returned"
    /\ Len(users) = 2 * BatchSize
    /\ batches = 2
    /\ pauses = 1

\* C4: a failing per-item fetch never aborts the scheduler: the breakdown
\* throws only when the roster fetch failed, every batch is still dispatched,
\* and the scheduler returns one entry per roster item in roster order, the
\* entry of a failing item being its fallback (false, with a zero-progress
\* record flagged as error).
C4_FailureDoesNotAbort ==
    /\ (pc = "threw" => batches = 0)
    /\ (pc = "returned" /\ users # <<>> =>
            /\ Len(results) = Len(users)
            /\ batches = CeilDiv(Len(users), BatchSize)
            /\ \A k \in 1..Len(users) :
                /\ Cardinality(EntriesOf(k)) = 1
                /\ \A j \in EntriesOf(k) :
                    /\ results[k] = ~userCompletionData[j].error
                    /\ userCompletionData[j].error =>
                          /\ userCompletionData[j].completedCount = 0
                          /\ userCompletionData[j].userVisibleActivities = 0)

C4_Witness ==
    /\ pc = "returned"
    /\ Len(users) > BatchSize
    /\ results[1] = FALSE
    /\ results[Len(users)] = TRUE

\* C6: the completionRanges of every returned breakdown has all six keys, for
\* an empty roster and when every fetch failed too, and a key without students
\* has count 0 and an empty students list.
C6_AllKeysPresent ==
    pc = "returned" =>
        /\ DOMAIN report.completionRanges = RangeKeys
        /\ \A k \in RangeKeys :
            /\ report.completionRanges[k].count
                   = Len(report.completionRanges[k].students)
            /\ report.completionRanges[k].count >= 0

C6_Witness ==
    /\ pc = "returned"
    /\ Len(users) >= 2
    /\ \A j \in 1..Len(userCompletionData) : userCompletionData[j].error
    /\ report.completionRanges["full"].count = 0
    /\ report.completionRanges["full"].students = <<>>

\* C7: in a returned breakdown totalActivitiesWithCompletion is the largest
\* number of statuses reported for any student of the course, and every
\* student entry carries that final value as totalActivities and sits in the
\* bucket that value gives, not the one an intermediate maximum or the
\* student's own visible count would give.
C7_BucketedAgainstFinalTotal ==
    pc = "returned" /\ users # <<>> =>
        /\ report.totalActivitiesWithCompletion =
               MaxOf({userCompletionData[j].userVisibleActivities :
                         j \in 1..Len(userCompletionData)})
        /\ \A k \in DOMAIN report.completionRanges :
            \A s \in StudentsIn(report, k) :
                /\ s.totalActivities = report.totalActivitiesWithCompletion
                /\ k = getRangeKey(s.completedActivities,
                                   report.totalActivitiesWithCompletion)

\* a student whose own list was complete (1 of 1) and who settled before a
\* student with a longer list: bucketed 'high' (1 of 2), not 'full'
C7_Witness ==
    /\ pc = "returned"
    /\ Len(userCompletionData) >= 2
    /\ userCompletionData[1].completedCount = 1
    /\ userCompletionData[1].userVisibleActivities = 1
    /\ report.totalActivitiesWithCompletion = 2
    /\ \E s \in StudentsIn(report, "high") : s.id = userCompletionData[1].user

\* C8: the running course total never decreases while students are folded
\* in, in any completion order; it no longer changes once every student is
\* scanned; and a scan of the same per-student counts in roster order gives
\* the value the breakdown returned.
C8_TotalMonotoneAndStable ==
    /\ [][totalActivitiesWithCompletion' >= totalActivitiesWithCompletion]_vars
    /\ [][(pc = "batch" /\ Len(userCompletionData) = Len(users))
              => totalActivitiesWithCompletion' = totalActivitiesWithCompletion]_vars
    /\ [](pc = "returned" /\ users # <<>> =>
              /\ report.totalActivitiesWithCompletion = totalActivitiesWithCompletion
              /\ RescanTotal(Len(users)) = totalActivitiesWithCompletion)

\* the student with the longest list settled first and a shorter one after it
C8_Witness ==
    /\ pc = "returned"
    /\ Len(userCompletionData) >= 3
    /\ userCompletionData[1].userVisibleActivities = 2
    /\ userCompletionData[2].userVisibleActivities = 1
    /\ userCompletionData[1].user > userCompletionData[2].user
    /\ totalActivitiesWithCompletion = 2

\* the key the bucketing policy names for (c, t), in whole numbers
PolicyKey(c, t) ==
    CASE c = 0 -> "0"
      [] c > 0 /\ t > 0 /\ c >= t -> "full"
      [] c > 0 /\ t = 0 -> "low"
      [] c > 0 /\ c < t /\ 4 * c < t -> "low"
      [] c > 0 /\ c < t /\ 4 * c >= t /\ 2 * c < t -> "mid"
      [] c > 0 /\ c < t /\ 2 * c >= t /\ 4 * c < 3 * t -> "high"
      [] c > 0 /\ c < t /\ 4 * c >= 3 * t -> "veryhigh"

\* C5: getRangeKey returns one of the six keys for all non-negative counts:
\* '0' for completedCount 0, else 'full' for completedCount >= courseTotal > 0,
\* else by percent (0 when courseTotal is 0): low < 25, mid < 50, high < 75,
\* veryhigh otherwise.
C5_RangeKeyPolicy ==
    rkResult # "none" /\ rkResult # "idle" =>
        /\ rkResult \in RangeKeys
        /\ rkResult = PolicyKey(rkCompleted, rkTotal)

\* a positive count against a course total of 0 lands in 'low'
C5_Witness ==
    /\ rkResult = "low"
    /\ rkCompleted > 0
    /\ rkTotal = 0

\* C2: at every instant of a run of the batch scheduler the number of item
\* operations dispatched and not yet settled is at most batchSize, for every
\* roster size (an invariant of processUsersInBatches under SpecCompletion
\* and of processInBatches under SpecEngagement).
C2_AtMostBatchSizeInFlight ==
    Cardinality(inflight) <= BatchSize

\* a full batch in flight on a roster longer than one batch
C2_Witness ==
    /\ pc = "batch"
    /\ Len(users) > BatchSize
    /\ Cardinality(inflight) = BatchSize

RECURSIVE SumVideoCompleted(_, _)
SumVideoCompleted(classes, k) ==
    IF k = 0 THEN 0 ELSE classes[k].videoCompleted + SumVideoCompleted(classes, k - 1)

\* C9: for every class of a returned engagement summary, with V and P the
\* video and pdf sets of the class: videoCompleted = |V|, pdfCompleted = |P|,
\* bothCompleted = |V \cap P|, eitherCompleted = |V \cup P|, and
\* both <= min(video, pdf) <= either <= video + pdf.
C9_ClassCounts ==
    pc = "returned" =>
        \A k \in 1..Len(report.classes) :
            LET c == report.classes[k]
                V == classData[c.className].video
                P == classData[c.className].pdf
            IN /\ c.videoCompleted = Cardinality(V)
               /\ c.pdfCompleted = Cardinality(P)
               /\ c.bothCompleted = Cardinality(V \cap P)
               /\ c.eitherCompleted = Cardinality(V \cup P)
               /\ c.bothCompleted <= Min(c.videoCompleted, c.pdfCompleted)
               /\ Min(c.videoCompleted, c.pdfCompleted) <= c.eitherCompleted
               /\ c.eitherCompleted <= c.videoCompleted + c.pdfCompleted

\* a class where one student completed both kinds and another only one
C9_Witness ==
    /\ pc = "returned"
    /\ \E k \in 1..Len(report.classes) :
        /\ report.classes[k].bothCompleted >= 1
        /\ report.classes[k].eitherCompleted > report.classes[k].bothCompleted

\* C10: the course-level uniqueVideoLearners is at most the sum of the
\* per-class videoCompleted counts, with equality exactly when no student is
\* in the video set of more than one class.
C10_UniqueVideoLearners ==
    pc = "returned" =>
        LET unique == report.summary.uniqueVideoLearners
            total == SumVideoCompleted(report.classes, Len(report.classes))
            shared == \E a, b \in DOMAIN classData :
                          a # b /\ classData[a].video \cap classData[b].video # {}
        IN /\ unique <= total
           /\ (unique = total) <=> ~shared

\* one student with a video completion in each of two classes
C10_Witness ==
    /\ pc = "returned"
    /\ Len(report.classes) = 2
    /\ report.summary.uniqueVideoLearners = 1
    /\ report.classes[1].videoCompleted = 1
    /\ report.classes[2].videoCompleted = 1

\* position of a student id in the roster
RosterPos(id) == CHOOSE k \in 1..Len(users) : users[k] = id

\* C18: in every bucket of a returned completion breakdown the students are
\* in descending completedActivities, and students with equal
\* completedActivities are in roster order, whatever the completion order of
\* the concurrent fetches was.
C18_TiesInRosterOrder ==
    pc = "returned" /\ users # <<>> =>
        \A k \in DOMAIN report.completionRanges :
            LET listed == report.completionRanges[k].students
            IN \A a, b \in 1..Len(listed) :
                a < b =>
                    /\ listed[a].completedActivities >= listed[b].completedActivities
                    /\ listed[a].completedActivities = listed[b].completedActivities
                           => RosterPos(listed[a].id) < RosterPos(listed[b].id)

\* C20: the class under which the activities of a section are reported is
\* named by the section's display name verbatim, and by "Unknown Class" when
\* the section has no name.
C20_ClassLabelOfSection ==
    pc = "returned" =>
        \A sct \in 1..Len(sections) :
            sections[sct].modules # <<>> =>
                \E k \in 1..Len(report.classes) :
                    report.classes[k].className =
                        IF sections[sct].name # "" THEN sections[sct].name
                        ELSE "Unknown Class"

\* ===================== the fold of one response, on its own (lines 139-163)
\* the maps are built from a course listing and one getActivitiesCompletion
\* response of the one student is about to be folded into empty class sets
InitFold ==
    /\ pc = "fold"
    /\ \E course \in Courses :
        /\ sections = course
        /\ moduleMap = BuildModuleMap(<<>>, course)
        /\ classOrder = BuildClassOrder(<<>>, course)
        /\ classData = EnsureClasses(<<>>, BuildClassOrder(<<>>, course))
        /\ statusList \in StatusListsFor(AllModules(course))
    /\ users = <<1>>
    /\ i = 0
    /\ inflight = {}
    /\ batchResults = <<>>
    /\ results = <<>>
    /\ totalActivitiesWithCompletion = 0
    /\ userCompletionData = <<>>
    /\ report = NoReport
    /\ batches = 0
    /\ pauses = 0
    /\ IdleR
    /\ IdleD
    /\ IdleA
    /\ IdleP
    /\ IdleG
    /\ IdleO

\* statuses.forEach(status => ...) of the callback
FoldResponse ==
    /\ pc = "fold"
    /\ classData' = FoldStatuses(classData, moduleMap, statusList, users[1])
    /\ pc' = "folded"
    /\ UNCHANGED <<users, i, inflight, batchResults, results,
                   totalActivitiesWithCompletion, userCompletionData, report,
                   batches, pauses, sections, moduleMap, classOrder>>
    /\ UNCHANGED <<varsR, varsF, varsD, varsA, varsP, varsG, varsO>>

NextFold == FoldResponse

SpecFold == InitFold /\ [][NextFold]_vars

\* C11: a completed status whose cmid is not in the classified map but whose
\* instance is the instance of a classified activity attributes the student
\* to that activity: the student is in the video (pdf) set of that activity's
\* class when that activity is a video (pdf).
C11_InstanceFallbackAttribution ==
    pc = "folded" =>
        \A k \in 1..Len(statusList) :
            LET status == statusList[k]
            IN status.state \in {1, 2} /\ status.cmid \notin DOMAIN moduleMap =>
                \A id \in DOMAIN moduleMap :
                    moduleMap[id].instance = status.instance =>
                        /\ moduleMap[id].type = "video" =>
                               users[1] \in classData[moduleMap[id].classLabel].video
                        /\ moduleMap[id].type = "pdf" =>
                               users[1] \in classData[moduleMap[id].classLabel].pdf

\* ============================== ConsistentAccessService.getDateRange (dates)
\* Times are epoch seconds; the code floors every millisecond value it
\* returns to seconds, and the clock is read to the second here.
SecondsPerDay == 24 * 60 * 60

\* days since 1970-01-01 of the civil date y-m-d (m in 1..12), proleptic
\* Gregorian calendar as Date.UTC uses it
DaysFromCivil(y, m, d) ==
    LET yy == IF m <= 2 THEN y - 1 ELSE y
        era == yy \div 400
        yoe == yy - era * 400
        mp == IF m > 2 THEN m - 3 ELSE m + 9
        doy == (153 * mp + 2) \div 5 + d - 1
        doe == yoe * 365 + yoe \div 4 - yoe \div 100 + doy
    IN era * 146097 + doe - 719468

\* getUTCFullYear / getUTCMonth (0-based) / getUTCDate of a day number
CivilFromDays(days) ==
    LET z == days + 719468
        era == z \div 146097
        doe == z - era * 146097
        yoe == (doe - doe \div 1460 + doe \div 36524 - doe \div 146096) \div 365
        doy == doe - (365 * yoe + yoe \div 4 - yoe \div 100)
        mp == (5 * doy + 2) \div 153
        m == IF mp < 10 THEN mp + 3 ELSE mp - 9
    IN [year |-> yoe + era * 400 + (IF m <= 2 THEN 1 ELSE 0),
        month |-> m - 1,
        date |-> doy - (153 * mp + 2) \div 5 + 1]

\* Date.UTC(year, month, date) / setUTCDate / setUTCMonth: a month outside
\* 0..11 carries into the year, a date outside the month carries into the
\* neighbouring months; the result is a day number
MakeDay(year, month, date) ==
    DaysFromCivil(year + (month \div 12), (month % 12) + 1, 1) + date - 1

\* ---- new Date(`${str}T00:00:00Z`) for the strings the route can be sent
Digits == ("0" :> 0) @@ ("1" :> 1) @@ ("2" :> 2) @@ ("3" :> 3) @@ ("4" :> 4) @@
          ("5" :> 5) @@ ("6" :> 6) @@ ("7" :> 7) @@ ("8" :> 8) @@ ("9" :> 9)

CharAt(str, k) == SubSeq(str, k, k)

IsDigits(str, from, to) == \A k \in from..to : CharAt(str, k) \in DOMAIN Digits

RECURSIVE ParseInt(_, _, _)
ParseInt(str, from, to) ==
    IF to < from THEN 0
    ELSE 10 * ParseInt(str, from, to - 1) + Digits[CharAt(str, to)]

InvalidDate == [valid |-> FALSE, day |-> 0]

\* the Date of a YYYY-MM-DD string followed by a time of day, as a day
\* number: the month must be 01..12 and the day 01..31 (V8 carries a day past
\* the end of the month into the next month); other text is an Invalid Date
ParseDay(str) ==
    IF /\ Len(str) = 10
       /\ IsDigits(str, 1, 4) /\ CharAt(str, 5) = "-"
       /\ IsDigits(str, 6, 7) /\ CharAt(str, 8) = "-"
       /\ IsDigits(str, 9, 10)
       /\ ParseInt(str, 6, 7) \in 1..12
       /\ ParseInt(str, 9, 10) \in 1..31
    THEN [valid |-> TRUE,
          day |-> MakeDay(ParseInt(str, 1, 4), ParseInt(str, 6, 7) - 1, ParseInt(str, 9, 10))]
    ELSE InvalidDate

isNaN(date) == ~date.valid

\* midnight UTC of the day of the clock
Today(clock) ==
    LET civil == CivilFromDays(clock \div SecondsPerDay)
    IN MakeDay(civil.year, civil.month, civil.date) * SecondsPerDay

Threw(message) == [threw |-> message]

\* a custom range that ends at the first second of its last day
CustomRange_EndAtMidnight(fromDateStr, toDateStr) ==
    IF fromDateStr = "" \/ toDateStr = ""
    THEN Threw("Custom range requires startDate and endDate")
    ELSE IF isNaN(ParseDay(fromDateStr)) \/ isNaN(ParseDay(toDateStr))
    THEN Threw("Invalid date format. Use YYYY-MM-DD")
    ELSE [from |-> ParseDay(fromDateStr).day * SecondsPerDay,
          to |-> ParseDay(toDateStr).day * SecondsPerDay]

\* case 'custom'
CustomRange(fromDateStr, toDateStr) ==
    IF fromDateStr = "" \/ toDateStr = ""
    THEN Threw("Custom range requires startDate and endDate")
    ELSE IF isNaN(ParseDay(fromDateStr)) \/ isNaN(ParseDay(toDateStr))
    THEN Threw("Invalid date format. Use YYYY-MM-DD")
    ELSE [from |-> ParseDay(fromDateStr).day * SecondsPerDay,
          to |-> ParseDay(toDateStr).day * SecondsPerDay + SecondsPerDay - 1]

\* a 'yesterday' that runs until the clock, as 'today' and 'week' do
YesterdayRange_UntilNow(clock) ==
    LET civil == CivilFromDays(Today(clock) \div SecondsPerDay)
    IN [from |-> MakeDay(civil.year, civil.month, civil.date - 1) * SecondsPerDay,
        to |-> clock]

\* case 'yesterday', also the default of the switch
YesterdayRange(clock) ==
    LET civil == CivilFromDays(Today(clock) \div SecondsPerDay)
    IN [from |-> MakeDay(civil.year, civil.month, civil.date - 1) * SecondsPerDay,
        to |-> Today(clock)]

\* a resolver that rejects a key it does not know
getDateRange_StrictKeys(key, fromDateStr, toDateStr, clock) ==
    LET civil == CivilFromDays(Today(clock) \div SecondsPerDay)
    IN CASE key = "today" -> [from |-> Today(clock), to |-> clock]
         [] key = "yesterday" -> YesterdayRange(clock)
         [] key = "week" ->
                [from |-> MakeDay(civil.year, civil.month, civil.date - 7) * SecondsPerDay,
                 to |-> clock]
         [] key = "month" ->
                [from |-> MakeDay(civil.year, civil.month - 1, civil.date) * SecondsPerDay,
                 to |-> clock]
         [] key = "custom" -> CustomRange(fromDateStr, toDateStr)
         [] OTHER -> Threw("Invalid range")

getDateRange(key, fromDateStr, toDateStr, clock) ==
    LET civil == CivilFromDays(Today(clock) \div SecondsPerDay)
    IN CASE key = "today" -> [from |-> Today(clock), to |-> clock]
         [] key = "yesterday" -> YesterdayRange(clock)
         [] key = "week" ->
                [from |-> MakeDay(civil.year, civil.month, civil.date - 7) * SecondsPerDay,
                 to |-> clock]
         [] key = "month" ->
                [from |-> MakeDay(civil.year, civil.month - 1, civil.date) * SecondsPerDay,
                 to |-> clock]
         [] key = "custom" -> CustomRange(fromDateStr, toDateStr)
         [] OTHER -> YesterdayRange(clock)

\* ---- inputs of the resolver
\* ("" is a request without a key that reaches the resolver as it is)
RangeKeyNames == {"today", "yesterday", "week", "month", "custom", "quarter", ""}

\* startDate / endDate query strings; "" is an absent parameter
DateStrings == {"", "2026-01-10", "2026-01-12", "2026-03-01", "2026-13-01", "tomorrow"}

\* clocks: first second, second second, noon and last second of three days
ClockDays == {DaysFromCivil(2026, 1, 1), DaysFromCivil(2026, 3, 1), DaysFromCivil(2026, 3, 31)}
ClockSeconds == {0, 1, 12 * 60 * 60, SecondsPerDay - 1}
Clocks == {day * SecondsPerDay + sec : day \in ClockDays, sec \in ClockSeconds}

InitDateRange ==
    /\ now \in Clocks
    /\ dateRange \in RangeKeyNames
    /\ startDate \in DateStrings
    /\ endDate \in DateStrings
    /\ range = NoRange
    /\ IdleC
    /\ IdleR
    /\ IdleE
    /\ IdleF
    /\ IdleA
    /\ IdleP
    /\ IdleG
    /\ IdleO

\* the call returns bounds
GetDateRangeReturns ==
    /\ range = NoRange
    /\ "threw" \notin DOMAIN getDateRange(dateRange, startDate, endDate, now)
    /\ range' = getDateRange(dateRange, startDate, endDate, now)
    /\ UNCHANGED <<now, dateRange, startDate, endDate>>
    /\ UNCHANGED <<varsC, varsR, varsE, varsF, varsA, varsP, varsG, varsO>>

\* the call throws
GetDateRangeThrows ==
    /\ range = NoRange
    /\ "threw" \in DOMAIN getDateRange(dateRange, startDate, endDate, now)
    /\ range' = getDateRange(dateRange, startDate, endDate, now)
    /\ UNCHANGED <<now, dateRange, startDate, endDate>>
    /\ UNCHANGED <<varsC, varsR, varsE, varsF, varsA, varsP, varsG, varsO>>

NextDateRange == GetDateRangeReturns \/ GetDateRangeThrows

SpecDateRange == InitDateRange /\ [][NextDateRange]_vars

\* Math.ceil((range.to - range.from) / (24 * 60 * 60))
daysInRange(rng) == CeilDiv(rng.to - rng.from, SecondsPerDay)

\* ---- what the date strings of DateStrings denote, written down by hand:
\* the calendar dates among them in ascending order, with their day numbers
CalendarDates == <<"2026-01-10", "2026-01-12", "2026-03-01">>
CalendarDayNumbers == <<20463, 20465, 20513>>

IsCalendarDate(str) == \E k \in 1..Len(CalendarDates) : CalendarDates[k] = str
DateIndex(str) == CHOOSE k \in 1..Len(CalendarDates) : CalendarDates[k] = str
Resolved == range # NoRange

\* C12: resolving 'custom' throws, and so returns no bounds, whenever the
\* start or the end string is missing or is not a date, or the start date is
\* after the end date.
C12_CustomRejectsInvalid ==
    /\ Resolved /\ dateRange = "custom"
    /\ \/ startDate = "" \/ endDate = ""
       \/ ~IsCalendarDate(startDate) \/ ~IsCalendarDate(endDate)
       \/ DateIndex(startDate) > DateIndex(endDate)
    => "threw" \in DOMAIN range

\* C14: a custom range with two dates, the start not after the end, runs from
\* 00:00:00 UTC of the start date to 23:59:59 UTC of the end date, and its
\* totalDays is the number of calendar days from start to end inclusive.
C14_CustomBounds ==
    /\ Resolved /\ dateRange = "custom"
    /\ IsCalendarDate(startDate) /\ IsCalendarDate(endDate)
    /\ DateIndex(startDate) <= DateIndex(endDate)
    => /\ "threw" \notin DOMAIN range
       /\ range.from = CalendarDayNumbers[DateIndex(startDate)] * 86400
       /\ range.to = CalendarDayNumbers[DateIndex(endDate)] * 86400 + 23 * 3600 + 59 * 60 + 59
       /\ daysInRange(range) =
              CalendarDayNumbers[DateIndex(endDate)] - CalendarDayNumbers[DateIndex(startDate)] + 1

\* 2026-01-10 .. 2026-01-12 was resolved to a range of 3 days
C14_Witness ==
    /\ dateRange = "custom" /\ startDate = "2026-01-10" /\ endDate = "2026-01-12"
    /\ Resolved /\ "threw" \notin DOMAIN range
    /\ daysInRange(range) = 3

\* C15: on one clock reading the upper bound of 'yesterday' is the lower
\* bound of 'today', and both are midnight UTC of the current day.
C15_YesterdayMeetsToday ==
    /\ Resolved /\ dateRange = "yesterday"
           => /\ range.to = getDateRange("today", startDate, endDate, now).from
              /\ range.to = now - (now % 86400)
    /\ Resolved /\ dateRange = "today"
           => /\ range.from = getDateRange("yesterday", startDate, endDate, now).to
              /\ range.from = now - (now % 86400)

\* 'yesterday' was resolved at a clock that is not midnight
C15_Witness ==
    /\ Resolved /\ dateRange = "yesterday"
    /\ now % 86400 # 0
    /\ range.to < now

\* ================= ConsistentAccessService.getConsistentAccessData (report)
MaxCourses == 2

\* ids of the users the site's rosters are made of
SiteUsers == {1, 2}

\* Math.round of 0 / 0 * 100 is NaN; it is written as the integer below zero
\* that no rounded percentage of the report takes
NaN == 0 - 1

\* Math.round((uniqueDays / daysInRange) * 100)
Consistency(uniqueDays, days) ==
    IF days > 0 THEN RoundPercent(uniqueDays, days)
    ELSE IF days < 0 THEN RoundPercent(0 - uniqueDays, 0 - days)
    ELSE NaN

\* last-access times the upstream may report for a user: never, a fixed
\* instant of 2026-01-11, a day before the clock, and the clock itself
LastAccessValues(clock) ==
    {0, DaysFromCivil(2026, 1, 11) * SecondsPerDay + 12 * 60 * 60,
     clock - SecondsPerDay, clock}

\* the ids of a set in ascending order
RECURSIVE Ascending(_)
Ascending(ids) ==
    IF ids = {} THEN <<>>
    ELSE LET least == CHOOSE x \in ids : \A y \in ids : x <= y
         IN <<least>> \o Ascending(ids \ {least})

Known(map, id) == \E k \in 1..Len(map) : map[k].userId = id
EntryOf(map, id) == map[CHOOSE k \in 1..Len(map) : map[k].userId = id]

\* responses of getEnrolledUsers for one course: some of the site's users,
\* each with the last access the site holds for the user
RostersOf(map, clock, ids) ==
    {[k \in 1..Len(Ascending(ids)) |->
          [id |-> Ascending(ids)[k], lastaccess |-> access[Ascending(ids)[k]]]] :
        access \in {f \in [SiteUsers -> LastAccessValues(clock)] :
                       \A u \in SiteUsers :
                           IF Known(map, u) THEN f[u] = EntryOf(map, u).lastaccess
                           ELSE u \notin ids => f[u] = 0}}

Rosters(map, clock) == UNION {RostersOf(map, clock, ids) : ids \in SUBSET SiteUsers}

\* enrolledUsers.forEach(user => ...) for one course
RECURSIVE AddRoster(_, _, _)
AddRoster(map, courseId, roster) ==
    IF roster = <<>> THEN map
    ELSE LET user == Head(roster)
             seen == IF Known(map, user.id) THEN map
                     ELSE Append(map, [userId |-> user.id,
                                       lastaccess |-> user.lastaccess,
                                       courses |-> <<>>])
             pushed == [k \in 1..Len(seen) |->
                           IF seen[k].userId = user.id
                           THEN [seen[k] EXCEPT !.courses =
                                    Append(@, [courseId |-> courseId,
                                               lastaccess |-> user.lastaccess])]
                           ELSE seen[k]]
         IN AddRoster(pushed, courseId, Tail(roster))

\* allUsers.filter(...): last access within the range, bounds included
ActiveUsers(allUsers, rng) ==
    SelectSeq(allUsers, LAMBDA user : user.lastaccess >= rng.from /\ user.lastaccess <= rng.to)

\* userLoginDays: an object keyed by user id, so Object.values visits the
\* users by ascending id
UserLoginDays(activeUsers, days) ==
    LET ids == {activeUsers[k].userId : k \in 1..Len(activeUsers)}
        order == Ascending(ids)
    IN [k \in 1..Len(order) |->
           LET user == EntryOf(activeUsers, order[k])
           IN [userId |-> user.userId,
               uniqueDays |-> Min(Len(user.courses), days),
               totalLogins |-> Len(user.courses),
               lastaccess |-> user.lastaccess,
               courses |-> user.courses]]

\* .sort((a, b) => b.consistency - a.consistency), a stable sort
RECURSIVE InsertByConsistency(_, _)
InsertByConsistency(sorted, user) ==
    IF sorted = <<>> THEN <<user>>
    ELSE IF Head(sorted).consistency >= user.consistency
    THEN <<Head(sorted)>> \o InsertByConsistency(Tail(sorted), user)
    ELSE <<user>> \o sorted

RECURSIVE SortByConsistency(_, _)
SortByConsistency(sorted, rest) ==
    IF rest = <<>> THEN sorted
    ELSE SortByConsistency(InsertByConsistency(sorted, Head(rest)), Tail(rest))

ConsistentUsers(loginDays, days) ==
    SortByConsistency(<<>>,
        [k \in 1..Len(loginDays) |->
            [userId |-> loginDays[k].userId,
             uniqueDays |-> loginDays[k].uniqueDays,
             totalLogins |-> loginDays[k].totalLogins,
             consistency |-> Consistency(loginDays[k].uniqueDays, days),
             lastaccess |-> loginDays[k].lastaccess,
             courses |-> loginDays[k].courses]])

\* a breakdown that counts up from 1
DayWiseArray_Ascending(consistentUsers, days) ==
    [k \in 1..Max(days, 0) |->
        [days |-> k,
         count |-> Cardinality({j \in 1..Len(consistentUsers) :
                                   consistentUsers[j].uniqueDays = k})]]

\* for (let days = daysInRange; days >= 1; days--) dayWiseArray.push(...)
DayWiseArray(consistentUsers, days) ==
    [k \in 1..Max(days, 0) |->
        [days |-> days - k + 1,
         count |-> Cardinality({j \in 1..Len(consistentUsers) :
                                   consistentUsers[j].uniqueDays = days - k + 1})]]

RECURSIVE SumLogins(_)
SumLogins(consistentUsers) ==
    IF consistentUsers = <<>> THEN 0
    ELSE Head(consistentUsers).totalLogins + SumLogins(Tail(consistentUsers))

ConsistencyReport(type, rng, allUsers) ==
    LET days == daysInRange(rng)
        activeUsers == ActiveUsers(allUsers, rng)
        consistentUsers == ConsistentUsers(UserLoginDays(activeUsers, days), days)
    IN [dateRange |-> [type |-> type, from |-> rng.from, to |-> rng.to, totalDays |-> days],
        summary |-> [totalUniqueUsers |-> Len(allUsers),
                     uniqueLoggedInUsers |-> Len(activeUsers),
                     consistentUsers |-> Len(consistentUsers),
                     totalCourseAccessEvents |-> SumLogins(consistentUsers)],
        dayWiseBreakdown |-> DayWiseArray(consistentUsers, days),
        users |-> consistentUsers]

generateEmptyResponse(rng, days) ==
    [dateRange |-> [type |-> "custom", from |-> rng.from, to |-> rng.to, totalDays |-> days],
     summary |-> [totalUniqueUsers |-> 0,
                  uniqueLoggedInUsers |-> 0,
                  consistentUsers |-> 0,
                  totalCourseAccessEvents |-> 0],
     dayWiseBreakdown |-> [k \in 1..Max(days, 0) |-> [days |-> days - k + 1, count |-> 0]],
     users |-> <<>>]

\* ---- the request
InitConsistency ==
    /\ pc = "getDateRange"
    /\ now \in Clocks
    /\ dateRange \in RangeKeyNames
    /\ startDate \in DateStrings
    /\ endDate \in DateStrings
    /\ dateRange # "custom" => startDate = "" /\ endDate = ""
    /\ range = NoRange
    /\ users = <<>>
    /\ i = 0
    /\ inflight = {}
    /\ batchResults = <<>>
    /\ results = <<>>
    /\ totalActivitiesWithCompletion = 0
    /\ userCompletionData = <<>>
    /\ report = NoReport
    /\ batches = 0
    /\ pauses = 0
    /\ IdleR
    /\ IdleE
    /\ IdleF
    /\ IdleA
    /\ IdleP
    /\ IdleG
    /\ IdleO

varsCRest == <<users, i, inflight, batchResults, results,
               totalActivitiesWithCompletion, userCompletionData, batches, pauses>>
varsRequest == <<now, dateRange, startDate, endDate>>

\* getDateRange throws: the outer catch rethrows and no report is returned
RangeThrows ==
    /\ pc = "getDateRange"
    /\ "threw" \in DOMAIN getDateRange(dateRange, startDate, endDate, now)
    /\ range' = getDateRange(dateRange, startDate, endDate, now)
    /\ pc' = "threw"
    /\ UNCHANGED <<report, varsCRest, varsRequest, varsA, varsG, varsO>>
    /\ UNCHANGED <<varsR, varsE, varsF, varsP, varsG, varsO>>

RangeReturns ==
    /\ pc = "getDateRange"
    /\ "threw" \notin DOMAIN getDateRange(dateRange, startDate, endDate, now)
    /\ range' = getDateRange(dateRange, startDate, endDate, now)
    /\ pc' = "getSiteInfo"
    /\ UNCHANGED <<report, varsCRest, varsRequest, varsA, varsG, varsO>>
    /\ UNCHANGED <<varsR, varsE, varsF, varsP, varsG, varsO>>

\* getSiteInfo rejects: the inner catch returns the empty response
SiteInfoFails ==
    /\ pc = "getSiteInfo"
    /\ report' = generateEmptyResponse(range, daysInRange(range))
    /\ pc' = "returned"
    /\ UNCHANGED <<range, varsCRest, varsRequest, varsA, varsG, varsO>>
    /\ UNCHANGED <<varsR, varsE, varsF, varsP, varsG, varsO>>

SiteInfoReturns ==
    /\ pc = "getSiteInfo"
    /\ pc' = "getUserCourses"
    /\ UNCHANGED <<report, range, varsCRest, varsRequest, varsA, varsG, varsO>>
    /\ UNCHANGED <<varsR, varsE, varsF, varsP, varsG, varsO>>

\* getUserCourses rejects: the inner catch returns the empty response
UserCoursesFails ==
    /\ pc = "getUserCourses"
    /\ report' = generateEmptyResponse(range, daysInRange(range))
    /\ pc' = "returned"
    /\ UNCHANGED <<range, varsCRest, varsRequest, varsA, varsG, varsO>>
    /\ UNCHANGED <<varsR, varsE, varsF, varsP, varsG, varsO>>

\* getUserCourses resolves with n courses; the loop fetches the rosters one
\* course after the other
UserCoursesReturns ==
    /\ pc = "getUserCourses"
    /\ \E n \in 0..MaxCourses :
        siteCourses' = [k \in 1..n |-> [id |-> k, fetched |-> FALSE, roster |-> <<>>]]
    /\ courseIdx' = 1
    /\ userAccessMap' = <<>>
    /\ pc' = "courses"
    /\ UNCHANGED <<report, range, varsCRest, varsRequest, varsG, varsO>>
    /\ UNCHANGED <<varsR, varsE, varsF, varsP, varsG, varsO>>

\* getEnrolledUsers of the current course resolves
CourseUsersReturn ==
    /\ pc = "courses"
    /\ courseIdx <= Len(siteCourses)
    /\ \E roster \in Rosters(userAccessMap, now) :
        /\ userAccessMap' = AddRoster(userAccessMap, siteCourses[courseIdx].id, roster)
        /\ siteCourses' = [siteCourses EXCEPT ![courseIdx] =
                              [@ EXCEPT !.fetched = TRUE, !.roster = roster]]
    /\ courseIdx' = courseIdx + 1
    /\ UNCHANGED <<pc, report, range, varsCRest, varsRequest, varsG, varsO>>
    /\ UNCHANGED <<varsR, varsE, varsF, varsP, varsG, varsO>>

\* getEnrolledUsers of the current course rejects: the course is skipped
CourseUsersFail ==
    /\ pc = "courses"
    /\ courseIdx <= Len(siteCourses)
    /\ courseIdx' = courseIdx + 1
    /\ UNCHANGED <<pc, report, range, siteCourses, userAccessMap, varsCRest, varsRequest, varsG, varsO>>
    /\ UNCHANGED <<varsR, varsE, varsF, varsP, varsG, varsO>>

\* the loop is over: filter, estimate, sort, count and return
ReportReturned ==
    /\ pc = "courses"
    /\ courseIdx > Len(siteCourses)
    /\ report' = ConsistencyReport(dateRange, range, userAccessMap)
    /\ pc' = "returned"
    /\ UNCHANGED <<range, varsCRest, varsRequest, varsA, varsG, varsO>>
    /\ UNCHANGED <<varsR, varsE, varsF, varsP, varsG, varsO>>

NextConsistency ==
    \/ RangeThrows
    \/ RangeReturns
    \/ SiteInfoFails
    \/ SiteInfoReturns
    \/ UserCoursesFails
    \/ UserCoursesReturns
    \/ CourseUsersReturn
    \/ CourseUsersFail
    \/ ReportReturned

SpecConsistency == InitConsistency /\ [][NextConsistency]_vars

\* ---- claims about the consistency report
Reported == pc = "returned" /\ "dateRange" \in DOMAIN report

\* C13: the totalDays of every report is the ceiling of (to - from) / 86400,
\* and it is at least 1.
C13_TotalDaysCeilingAtLeastOne ==
    Reported =>
        LET total == report.dateRange.totalDays
            span == report.dateRange.to - report.dateRange.from
        IN /\ total * 86400 >= span
           /\ (total - 1) * 86400 < span
           /\ total >= 1

\* C16: the dayWiseBreakdown of every report, the empty fallback included,
\* lists each integer from totalDays down to 1 exactly once, in descending
\* order, with the number of listed users of that day count (0 when none).
C16_DayWiseDescending ==
    Reported =>
        LET rows == report.dayWiseBreakdown
            total == report.dateRange.totalDays
        IN /\ \A d \in 1..total :
                  Cardinality({k \in 1..Len(rows) : rows[k].days = d}) = 1
           /\ \A k \in 1..Len(rows) : rows[k].days \in 1..total
           /\ \A k \in 1..(Len(rows) - 1) : rows[k].days > rows[k + 1].days
           /\ \A k \in 1..Len(rows) :
                  rows[k].count =
                      Cardinality({j \in 1..Len(report.users) :
                                      report.users[j].uniqueDays = rows[k].days})

\* a report over at least 3 days with a day count somebody has and one
\* nobody has
C16_Witness ==
    /\ Reported
    /\ report.dateRange.totalDays >= 3
    /\ \E k \in 1..Len(report.dayWiseBreakdown) : report.dayWiseBreakdown[k].count > 0
    /\ \E k \in 1..Len(report.dayWiseBreakdown) : report.dayWiseBreakdown[k].count = 0

\* the courses whose roster was fetched, and the users on those rosters
FetchedCourses == {k \in 1..Len(siteCourses) : siteCourses[k].fetched}
OnRoster(k, id) == \E j \in 1..Len(siteCourses[k].roster) : siteCourses[k].roster[j].id = id
RosterUsers == {id \in SiteUsers : \E k \in FetchedCourses : OnRoster(k, id)}
Memberships(id) == Cardinality({k \in FetchedCourses : OnRoster(k, id)})
LastAccessOf(id) ==
    LET k == CHOOSE c \in FetchedCourses : OnRoster(c, id)
        j == CHOOSE e \in 1..Len(siteCourses[k].roster) : siteCourses[k].roster[e].id = id
    IN siteCourses[k].roster[j].lastaccess
ListedAs(id) == {j \in 1..Len(report.users) : report.users[j].userId = id}

\* C17: every roster user whose last access lies in [from, to], bounds
\* included, is listed with uniqueDays = min(number of distinct courses the
\* user is a member of, totalDays) and consistency = round(uniqueDays /
\* totalDays * 100); a user whose last access lies outside is not listed.
C17_ListedUsers ==
    pc = "returned" /\ courseIdx > 0 =>
        \A id \in RosterUsers :
            IF LastAccessOf(id) >= range.from /\ LastAccessOf(id) <= range.to
            THEN /\ Cardinality(ListedAs(id)) = 1
                 /\ \A j \in ListedAs(id) :
                        LET total == report.dateRange.totalDays
                            listed == report.users[j]
                        IN /\ listed.uniqueDays = Min(Memberships(id), total)
                           /\ total # 0
                           /\ 2 * total * listed.consistency <= 200 * listed.uniqueDays + total
                           /\ 2 * total * (listed.consistency + 1) > 200 * listed.uniqueDays + total
            ELSE ListedAs(id) = {}

\* ========================================= parseActivityInfo, on its own
\* activity names, section names and module types it is called with
ActivityNames == {"Intro VIDEO", "Vid 1", "Provide feedback", "Notes PDF",
                  "Document 3", "Video document", "Reading", ""}
ClassNames == {"", "Week 1", "Video lectures", "PDF documents"}
ModNames == {"", "resource", "page", "interactivevideo"}

InitParse ==
    /\ paModuleName \in ActivityNames
    /\ paSectionName \in ClassNames
    /\ paModname \in ModNames
    /\ paResult = <<>>
    /\ IdleC
    /\ IdleR
    /\ IdleE
    /\ IdleF
    /\ IdleD
    /\ IdleA
    /\ IdleG
    /\ IdleO

CallParseActivityInfo ==
    /\ paResult = <<>>
    /\ paResult' = parseActivityInfo(paModuleName, paSectionName, paModname)
    /\ UNCHANGED <<paModuleName, paSectionName, paModname>>
    /\ UNCHANGED <<varsC, varsR, varsE, varsF, varsD, varsA, varsG, varsO>>

NextParse == CallParseActivityInfo

SpecParse == InitParse /\ [][NextParse]_vars

\* the names of ActivityNames that hold "video" or "vid", and those that
\* hold "pdf" or "document", in any letter case (read off by hand)
VideoNames == {"Intro VIDEO", "Vid 1", "Provide feedback", "Video document"}
DocumentNames == {"Notes PDF", "Document 3", "Video document"}

\* C19: module type 'interactivevideo' gives video; otherwise a name holding
\* 'video' or 'vid' gives video; otherwise a name holding 'pdf' or 'document'
\* gives pdf; otherwise other.  A name with both kinds of substring is a
\* video, and the section name has no influence on the category.
C19_CategoryPriority ==
    paResult # <<>> =>
        /\ paResult.type =
               IF paModname = "interactivevideo" THEN "video"
               ELSE IF paModuleName \in VideoNames THEN "video"
               ELSE IF paModuleName \in DocumentNames THEN "pdf"
               ELSE "other"
        /\ \A other \in ClassNames :
               parseActivityInfo(paModuleName, other, paModname).type = paResult.type

\* a resource whose name holds both a video and a document substring, in a
\* section named after documents, was classified as a video
C19_Witness ==
    /\ paResult # <<>>
    /\ paModuleName = "Video document"
    /\ paSectionName = "PDF documents"
    /\ paModname = "resource"
    /\ paResult.type = "video"

\* C22: when the course-structure fetch or the roster fetch of a course
\* fails, the single-course builder fails for that course: the step at which
\* the fetch rejects ends the builder with an error, it does not go on to a
\* report.
C22_FetchFailureSurfaces ==
    [][(ContentsFails \/ StudentsFails) => pc' = "threw"]_vars

\* the module of the course listing that a status reports, by its cmid
ModuleOfStatus(status) ==
    LET mods == AllModules(sections)
    IN {mods[k] : k \in {j \in 1..Len(mods) : mods[j].id = status.cmid}}

OutsideAllowList(status) ==
    \E m \in ModuleOfStatus(status) :
        m.modname \notin {"resource", "url", "page", "scorm", "folder", "interactivevideo"}

\* C23: a completion event of a module whose type is outside the allow-list
\* (a forum, say) never adds the student to a video or pdf set: when every
\* completed status of the response belongs to such a module, every set stays
\* empty.
C23_ExcludedModulesNeverCount ==
    /\ pc = "folded"
    /\ \A k \in 1..Len(statusList) :
           statusList[k].state \in {1, 2} => OutsideAllowList(statusList[k])
    => \A label \in DOMAIN classData :
           classData[label].video = {} /\ classData[label].pdf = {}

\* the class sets before the response is folded
FoldStart == EnsureClasses(<<>>, classOrder)

\* a status the fold has no use for: not complete, or matching no classified
\* activity by cmid or by instance
Discarded(status) ==
    \/ status.state \notin {1, 2}
    \/ /\ status.cmid \notin DOMAIN moduleMap
       /\ \A id \in DOMAIN moduleMap : moduleMap[id].instance # status.instance

CountedByCmid(status) == status.state \in {1, 2} /\ status.cmid \in DOMAIN moduleMap

\* C24: a status that is not complete (state other than 1 and 2) or that
\* matches no classified activity leaves every video and pdf set as it was,
\* and the fold goes on with the next status: every complete status whose
\* cmid is classified has put the student into its set, wherever discarded
\* statuses stand in the response.
C24_DiscardedStatusChangesNothing ==
    pc = "folded" =>
        /\ \A k \in 1..Len(statusList) :
               Discarded(statusList[k]) =>
                   FoldStatuses(FoldStart, moduleMap, SubSeq(statusList, 1, k), users[1])
                       = FoldStatuses(FoldStart, moduleMap, SubSeq(statusList, 1, k - 1), users[1])
        /\ \A k \in 1..Len(statusList) :
               CountedByCmid(statusList[k]) =>
                   LET modInfo == moduleMap[statusList[k].cmid]
                   IN /\ modInfo.type = "video" => users[1] \in classData[modInfo.classLabel].video
                      /\ modInfo.type = "pdf" => users[1] \in classData[modInfo.classLabel].pdf
        /\ (\A k \in 1..Len(statusList) : Discarded(statusList[k])) => classData = FoldStart

\* a discarded status stood before a counted one, and the student was added
C24_Witness ==
    /\ pc = "folded"
    /\ Len(statusList) = 2
    /\ Discarded(statusList[1])
    /\ CountedByCmid(statusList[2])
    /\ classData # FoldStart

\* -------- getDateRange of the analytics route (the copy in the routes file)
\* case 'custom' of the route copy
RouteCustomRange(fromDateStr, toDateStr) ==
    IF fromDateStr = "" \/ toDateStr = ""
    THEN Threw("Custom range requires startDate and endDate")
    ELSE IF isNaN(ParseDay(fromDateStr)) \/ isNaN(ParseDay(toDateStr))
    THEN Threw("Invalid date format (YYYY-MM-DD)")
    ELSE [from |-> ParseDay(fromDateStr).day * SecondsPerDay,
          to |-> ParseDay(toDateStr).day * SecondsPerDay + SecondsPerDay - 1]

\* the route copy has the cases today, yesterday, week and custom
routeGetDateRange(key, fromDateStr, toDateStr, clock) ==
    LET civil == CivilFromDays(Today(clock) \div SecondsPerDay)
        yesterday == [from |-> MakeDay(civil.year, civil.month, civil.date - 1) * SecondsPerDay,
                      to |-> Today(clock)]
    IN CASE key = "today" -> [from |-> Today(clock), to |-> clock]
         [] key = "yesterday" -> yesterday
         [] key = "week" ->
                [from |-> MakeDay(civil.year, civil.month, civil.date - 7) * SecondsPerDay,
                 to |-> clock]
         [] key = "custom" -> RouteCustomRange(fromDateStr, toDateStr)
         [] OTHER -> yesterday

\* C25: for a range key that is none of today, yesterday, week, month and
\* custom (an absent key included) the resolver of the consistency service
\* returns, without error, exactly the bounds of 'yesterday' at that instant:
\* from midnight UTC of the day before to midnight UTC of the current day.
C25_UnknownKeyIsYesterday ==
    Resolved /\ dateRange \notin {"today", "yesterday", "week", "month", "custom"} =>
        /\ "threw" \notin DOMAIN range
        /\ range = getDateRange("yesterday", startDate, endDate, now)
        /\ range.to = now - (now % 86400)
        /\ range.from = range.to - 86400

\* the key 'quarter' was resolved at noon
C25_Witness ==
    /\ Resolved /\ dateRange = "quarter"
    /\ now % 86400 = 12 * 3600
    /\ "from" \in DOMAIN range

\* C30: evaluated at the same instant on the same key and date strings, the
\* resolver of the consistency service and the resolver of the analytics
\* route return the same bounds, or both fail.
C30_ResolverCopiesAgree ==
    Resolved =>
        LET other == routeGetDateRange(dateRange, startDate, endDate, now)
        IN IF "threw" \in DOMAIN range THEN "threw" \in DOMAIN other
           ELSE "threw" \notin DOMAIN other /\ other.from = range.from /\ other.to = range.to

\* C26: in every returned completion breakdown each student's
\* completedActivities is at most the course's totalActivitiesWithCompletion,
\* so nobody with completedActivities > 0 is bucketed against a total of 0,
\* and every completionPercentage lies in 0..100.
C26_CompletedAtMostTotal ==
    pc = "returned" /\ users # <<>> =>
        \A k \in DOMAIN report.completionRanges :
            \A student \in StudentsIn(report, k) :
                /\ student.completedActivities <= report.totalActivitiesWithCompletion
                /\ student.totalActivities = report.totalActivitiesWithCompletion
                /\ student.completedActivities > 0 => report.totalActivitiesWithCompletion > 0
                /\ student.completionPercentage \in 0..100

\* a student who completed something sees fewer activities than the course
\* total, which comes from another student
C26_Witness ==
    /\ pc = "returned" /\ users # <<>>
    /\ \E k \in DOMAIN report.completionRanges :
           \E student \in StudentsIn(report, k) :
               /\ student.completedActivities > 0
               /\ student.userVisibleActivities < report.totalActivitiesWithCompletion

RECURSIVE SumRowCounts(_)
SumRowCounts(rows) ==
    IF rows = <<>> THEN 0 ELSE Head(rows).count + SumRowCounts(Tail(rows))

\* C29: in every consistency report the counts of the dayWiseBreakdown rows
\* add up to the number of listed users: every listed user has a uniqueDays
\* between 1 and totalDays and so falls in exactly one row.
C29_RowCountsCoverUsers ==
    Reported =>
        /\ SumRowCounts(report.dayWiseBreakdown) = Len(report.users)
        /\ \A j \in 1..Len(report.users) :
               report.users[j].uniqueDays \in 1..report.dateRange.totalDays

\* =============== two concurrent callbacks of one batch (lines 127-169)
\* responses of the two fetches: statuses that count (state 1) and statuses
\* that do not (state 0), under every cmid / instance the upstream may report
OrderResponses(mods) ==
    {r \in StatusListsFor(mods) : \A k \in 1..Len(r) : r[k].state \in {0, 1}}

\* the maps are built, the roster is <<1, 2>> and the scheduler has
\* dispatched both callbacks in one batch; what each fetch will resolve with
\* is fixed by the upstream, the order in which they resolve is not
InitOrder ==
    /\ pc = "batch"
    /\ \E course \in Courses :
        /\ sections = course
        /\ moduleMap = BuildModuleMap(<<>>, course)
        /\ classOrder = BuildClassOrder(<<>>, course)
        /\ classData = EnsureClasses(<<>>, BuildClassOrder(<<>>, course))
        /\ responses \in [{1, 2} -> OrderResponses(AllModules(course))]
    /\ users = <<1, 2>>
    /\ inflight = {1, 2}
    /\ i = 0
    /\ batchResults = <<>>
    /\ results = <<>>
    /\ totalActivitiesWithCompletion = 0
    /\ userCompletionData = <<>>
    /\ report = NoReport
    /\ batches = 1
    /\ pauses = 0
    /\ IdleR
    /\ IdleX
    /\ IdleG

\* the fetch of one of the dispatched students resolves and its callback
\* folds the statuses into the shared class sets
CallbackSettles ==
    /\ pc = "batch"
    /\ responses # <<>>
    /\ \E k \in inflight :
        /\ classData' = FoldStatuses(classData, moduleMap, responses[users[k]], users[k])
        /\ batchResults' = (k :> "undefined") @@ batchResults
        /\ inflight' = inflight \ {k}
    /\ UNCHANGED <<pc, users, i, results, totalActivitiesWithCompletion,
                   userCompletionData, report, batches, pauses,
                   sections, moduleMap, classOrder>>
    /\ UNCHANGED <<varsR, varsX, varsG, varsO>>

NextOrder == CallbackSettles \/ ItemsLastBatchSettled

SpecOrder == InitOrder /\ [][NextOrder]_vars

\* the class sets when the two callbacks run in roster order
RosterOrderData ==
    FoldStatuses(FoldStatuses(FoldStart, moduleMap, responses[1], 1),
                 moduleMap, responses[2], 2)

\* the students whose response holds a counted status of a video of the class
VideoLearnersOf(label) ==
    {u \in {1, 2} :
        \E k \in 1..Len(responses[u]) :
            /\ responses[u][k].state = 1
            /\ Matches(moduleMap, responses[u][k])
            /\ ModInfo(moduleMap, responses[u][k]).classLabel = label
            /\ ModInfo(moduleMap, responses[u][k]).type = "video"}

\* C27: the engagement summary of a course is the same for every completion
\* order of the concurrent fetches of a batch: it is the summary of the
\* callbacks run in roster order, and the video count of each class is the
\* number of students with a counted video status of that class, nobody lost
\* and nobody counted twice.
C27_SummaryIndependentOfOrder ==
    pc = "returned" /\ responses # <<>> =>
        /\ report = CourseReport(RosterOrderData, classOrder, Len(users))
        /\ \A k \in 1..Len(report.classes) :
               report.classes[k].videoCompleted =
                   Cardinality(VideoLearnersOf(report.classes[k].className))

\* both students completed a video of the same class and the class counts 2
C27_Witness ==
    /\ pc = "returned" /\ responses # <<>>
    /\ \E k \in 1..Len(report.classes) : report.classes[k].videoCompleted = 2

\* ------------------------------------ getAllCoursesCompletionBreakdown
\* Of every breakdown pushed to results the aggregation reads totalEnrolled
\* and completionRanges['full'].count; an entry keeps these two fields and
\* the id of the course.
CourseEntry(courseId, breakdown) ==
    [courseId |-> courseId,
     totalEnrolled |-> breakdown.totalEnrolled,
     fullyCompleted |-> breakdown.completionRanges["full"].count]

RECURSIVE SumEnrolled(_)
SumEnrolled(entries) ==
    IF entries = <<>> THEN 0
    ELSE Head(entries).totalEnrolled + SumEnrolled(Tail(entries))

RECURSIVE SumFullyCompleted(_)
SumFullyCompleted(entries) ==
    IF entries = <<>> THEN 0
    ELSE Head(entries).fullyCompleted + SumFullyCompleted(Tail(entries))

\* parseFloat(((full / enrolled) * 100).toFixed(2)), in hundredths of a
\* percent, rounded to the nearest
CompletionRate(full, enrolled) ==
    IF enrolled > 0 THEN ((full * 20000) + enrolled) \div (2 * enrolled) ELSE 0

AllCoursesReport(entries) ==
    [summary |-> [totalCourses |-> Len(entries),
                  totalEnrolled |-> SumEnrolled(entries),
                  fullyCompleted |-> SumFullyCompleted(entries),
                  completionRate |-> CompletionRate(SumFullyCompleted(entries),
                                                    SumEnrolled(entries))],
     courses |-> entries]

InitAllCourses ==
    /\ allPc = "getUserCourses"
    /\ allCourses = <<>>
    /\ allIdx = 0
    /\ allResults = <<>>
    /\ allReport = NoReport
    /\ IdleC
    /\ IdleR
    /\ IdleE
    /\ IdleX
    /\ IdleO

\* the locals of one getSingleCourseCompletionBreakdown call
BuilderLocals(at) ==
    /\ pc' = at
    /\ users' = <<>>
    /\ i' = 0
    /\ inflight' = {}
    /\ batchResults' = <<>>
    /\ results' = <<>>
    /\ totalActivitiesWithCompletion' = 0
    /\ userCompletionData' = <<>>
    /\ report' = NoReport
    /\ batches' = 0
    /\ pauses' = 0

\* the end of one iteration of the for loop: the next course's builder is
\* called, or the loop is over and the summary is returned
LoopContinues(entries) ==
    /\ allResults' = entries
    /\ IF allIdx < Len(allCourses)
       THEN /\ allIdx' = allIdx + 1
            /\ allPc' = "loop"
            /\ allReport' = allReport
            /\ BuilderLocals("fetchUsers")
       ELSE /\ allIdx' = allIdx
            /\ allPc' = "returned"
            /\ allReport' = AllCoursesReport(entries)
            /\ BuilderLocals("idle")
    /\ UNCHANGED <<allCourses, varsR, varsE, varsX, varsO>>

\* getUserCourses rejects: the outer catch rethrows
AllCoursesFetchFails ==
    /\ allPc = "getUserCourses"
    /\ allPc' = "threw"
    /\ UNCHANGED <<allCourses, allIdx, allResults, allReport>>
    /\ UNCHANGED <<varsC, varsR, varsE, varsX, varsO>>

\* getUserCourses resolves with n courses; the loop calls the first builder
AllCoursesFetched ==
    /\ allPc = "getUserCourses"
    /\ \E n \in 0..MaxCourses :
        /\ allCourses' = [k \in 1..n |-> k]
        /\ IF n = 0
           THEN /\ allPc' = "returned"
                /\ allIdx' = 0
                /\ allReport' = AllCoursesReport(<<>>)
                /\ UNCHANGED varsC
           ELSE /\ allPc' = "loop"
                /\ allIdx' = 1
                /\ allReport' = allReport
                /\ BuilderLocals("fetchUsers")
    /\ UNCHANGED <<allResults, varsR, varsE, varsX, varsO>>

\* variant: the results array is replaced by the latest breakdown
CourseBuilt_Replaces ==
    /\ allPc = "loop"
    /\ pc = "returned"
    /\ LoopContinues(<<CourseEntry(allCourses[allIdx], report)>>)

\* the awaited builder resolved: results.push(breakdown)
CourseBuilt ==
    /\ allPc = "loop"
    /\ pc = "returned"
    /\ LoopContinues(Append(allResults, CourseEntry(allCourses[allIdx], report)))

\* variant: the loop does not await the builder
CourseSkipped_NoAwait ==
    /\ allPc = "loop"
    /\ pc \in {"threw", "batch"}
    /\ LoopContinues(allResults)

\* the awaited builder rejected: the inner catch logs and the loop goes on
CourseSkipped ==
    /\ allPc = "loop"
    /\ pc = "threw"
    /\ LoopContinues(allResults)

NextAllCourses ==
    \/ AllCoursesFetchFails
    \/ AllCoursesFetched
    \/ CourseBuilt
    \/ CourseSkipped
    \/ EnrolledUsersFails
    \/ EnrolledUsersEmpty
    \/ EnrolledUsersReturns
    \/ CompletionReturns
    \/ CompletionFails
    \/ BatchSettled
    \/ PauseElapsed
    \/ LastBatchSettled

SpecAllCourses == InitAllCourses /\ [][NextAllCourses]_vars

EntryIds(entries) == [k \in 1..Len(entries) |-> entries[k].courseId]

\* C21: a course whose builder rejects is skipped and the loop goes on with
\* the next course; the aggregation itself fails only when the course list
\* cannot be fetched. Every course whose builder resolved adds its report
\* at the end of the list, so the list is in roster order, and the returned
\* totalCourses is the number of reports in it.
C21_FailedCourseIsSkipped ==
    /\ [](allPc = "threw" => allIdx = 0)
    /\ [](allPc = "returned" =>
            /\ allIdx = Len(allCourses)
            /\ allReport.courses = allResults
            /\ allReport.summary.totalCourses = Len(allResults))
    /\ [](\A k \in 1..Len(allResults) :
            /\ allResults[k].courseId \in 1..allIdx
            /\ k > 1 => allResults[k - 1].courseId < allResults[k].courseId)
    /\ [][/\ (allPc = "loop" /\ pc = "threw") =>
                /\ allResults' = allResults
                /\ allPc' \in {"loop", "returned"}
                /\ allIdx < Len(allCourses) => (allIdx' = allIdx + 1 /\ pc' = "fetchUsers")
          /\ (allPc = "loop" /\ pc = "returned") =>
                /\ Len(allResults') = Len(allResults) + 1
                /\ SubSeq(allResults', 1, Len(allResults)) = allResults
                /\ allResults'[Len(allResults')].courseId = allCourses[allIdx]
                /\ allResults'[Len(allResults')].totalEnrolled = report.totalEnrolled]_vars

\* a first course was skipped, a later course was reported, and the
\* aggregation returned
C21_Witness ==
    /\ allPc = "returned"
    /\ Len(allCourses) = 2
    /\ EntryIds(allResults) = <<2>>
    /\ allResults[1].totalEnrolled > 0

\* C28: at most BatchSize completion fetches are in flight at any instant
\* of the whole request, and a course is started only when no fetch of the
\* course before it is still in flight and its builder has settled.
C28_CoursesStrictlySequential ==
    /\ [](Cardinality(inflight) <= BatchSize)
    /\ [](allPc # "loop" => inflight = {})
    /\ [][allIdx' # allIdx =>
            /\ inflight = {}
            /\ inflight' = {}
            /\ allIdx > 0 => pc \in {"returned", "threw"}]_vars

\* the second course is being processed with a full batch in flight
C28_Witness ==
    /\ allPc = "loop"
    /\ allIdx = 2
    /\ Cardinality(inflight) = BatchSize

====
